---- MODULE Spec2Model ----
(***************************************************************************)
(* A model of docs/generate_case_study_ppt.py: the code tokenizer and      *)
(* highlighter (highlight_code_line), the slide composer (slide_xml), the  *)
(* slide relationship writer (slide_rels_xml), the manifest                *)
(* (content_types_xml) and the archive writer (generate_pptx).             *)
(*                                                                         *)
(* Text is modelled as a sequence of one-character strings.  A part path   *)
(* of the archive is a record [prefix, n, exts]: the path is prefix, then  *)
(* the decimal number n when n > 0, then "." and each extension.  A        *)
(* relationship id "rId<k>" is the tuple <<"rId", k>>; the empty string    *)
(* is the empty tuple.                                                     *)
(***************************************************************************)
EXTENDS Integers, Sequences, FiniteSets, TLC

VARIABLES
    pc,          \* where generate_pptx stands
    titles,      \* [slide.title for slide in slides], the slide list's titles
    idx,         \* the loop index of line 2887: the iterations entered so far
    slide,       \* the SlideData of the iteration under way
    link_targets,\* line 2889-2894, for that slide
    rel_xml,     \* the relationships of slide_rels_xml's first result
    link_rids,   \* slide_rels_xml's second result
    shapes,      \* the shapes of slide_xml's shape tree, for that slide
    archive,     \* the part paths written to the ZipFile so far
    manifest,    \* what [Content_Types].xml declares, once written
    fixed_parts, \* what presentation.xml, its relationships and app.xml hold, once written
    line,        \* the argument of highlight_code_line
    runs,        \* its result
    hpc,         \* "input" before highlight_code_line is called, "done" after
    body_line,   \* the argument of format_body_line
    formatted,   \* its result
    fpc,         \* "input" before format_body_line is called, "done" after
    table_data,  \* the TableData argument of table_xml
    table_cx,    \* the cx argument of table_xml: the width of the frame
    table_markup,\* its result: the grid columns and the rows of cells
    tpc,         \* "input" before table_xml is called, "done" or "raised" after
    canvas,      \* a RasterCanvas: width, height and rows of 3 * width bytes
    call,        \* the method of the canvas called last, with its arguments
    before,      \* the canvas rows when that call was made
    png,         \* the result of to_png_bytes, when that was the call
    cpc,         \* "ready" between calls on the canvas, "returned" after one
    deck,        \* the titles of the slide list given to both runs of generate_pptx
    clock,       \* the wall clock, in steps of the two seconds a ZIP entry's time resolves
    first_run,   \* the archive the first run leaves: entries in the order written
    second_run,  \* the archive the second run leaves
    rpc,         \* "start", "once" after the first run, "twice" after the second
    todo,        \* the _draw_line_single calls a draw_line or draw_arrow call has yet to make
    frame,       \* the locals of the _draw_line_single call under way, or of the last one
    lpc,         \* "between" two _draw_line_single calls, "loop" inside one, "returned" at the end
    slide_bullets,\* slide.bullets of the slide whose paragraphs are composed
    slide_code_title,\* slide.code_title: <<>> for None, <<text>> for a string
    slide_code,  \* slide.code: <<>> for None, <<text>> for a string
    body_paragraphs,\* the paragraphs of the Body shape (lines 553-563)
    code_paragraphs,\* the paragraphs of the Code shape (lines 665-698)
    ppc,         \* "input" before the paragraphs are composed, "done" after
    geo_slide,   \* the one slide of a deck whose shape frames are laid out
    geo_shapes,  \* the shapes of its shape tree, each with its a:off and a:ext
    gpc          \* "input" before slide_xml is called on it, "done" after

vars == <<pc, titles, idx, slide, link_targets, rel_xml, link_rids, shapes,
          archive, manifest, fixed_parts, line, runs, hpc, body_line, formatted, fpc,
          table_data, table_cx, table_markup, tpc, canvas, call, before, png, cpc,
          deck, clock, first_run, second_run, rpc,
          todo, frame, lpc,
          slide_bullets, slide_code_title, slide_code, body_paragraphs, code_paragraphs, ppc,
          geo_slide, geo_shapes, gpc>>

pptxVars == <<pc, titles, idx, slide, link_targets, rel_xml, link_rids, shapes,
              archive, manifest, fixed_parts>>

hlVars == <<line, runs, hpc>>

fmtVars == <<body_line, formatted, fpc>>

tblVars == <<table_data, table_cx, table_markup, tpc>>

canvasVars == <<canvas, call, before, png, cpc>>

rerunVars == <<deck, clock, first_run, second_run, rpc>>

\* The variables of the functions that generate_pptx and highlight_code_line
\* leave alone
lineVars == <<todo, frame, lpc>>

paraVars ==
    <<slide_bullets, slide_code_title, slide_code, body_paragraphs,
      code_paragraphs, ppc>>

geoVars == <<geo_slide, geo_shapes, gpc>>

libVars == <<fmtVars, tblVars, canvasVars, rerunVars, lineVars, paraVars, geoVars>>

\* format_body_line's variables, at rest
FormatIdle == body_line = <<>> /\ formatted = <<>> /\ fpc = "idle"

\* table_xml's variables, at rest
TableIdle ==
    table_data = <<>> /\ table_cx = 0 /\ table_markup = <<>> /\ tpc = "idle"

\* The canvas variables, at rest
CanvasIdle ==
    canvas = <<>> /\ call = <<>> /\ before = <<>> /\ png = <<>> /\ cpc = "idle"

\* The variables of the two runs, at rest
RerunIdle ==
    /\ deck = <<>> /\ clock = 0 /\ first_run = <<>> /\ second_run = <<>>
    /\ rpc = "idle"

\* The variables of the line loop, at rest
LineIdle ==
    todo = <<>> /\ frame = <<>> /\ lpc = "idle"

\* The variables of the paragraph composition, at rest
ParagraphsIdle ==
    /\ slide_bullets = <<>> /\ slide_code_title = <<>> /\ slide_code = <<>>
    /\ body_paragraphs = <<>> /\ code_paragraphs = <<>> /\ ppc = "idle"

\* The variables of the slide layout, at rest
GeometryIdle ==
    geo_slide = <<>> /\ geo_shapes = <<>> /\ gpc = "idle"

LibIdle ==
    /\ FormatIdle /\ TableIdle /\ CanvasIdle /\ RerunIdle /\ LineIdle
    /\ ParagraphsIdle /\ GeometryIdle

\* ------------------------------------------------------------------ bounds

MaxLen == 4

MaxSlides == 2

MaxEntries == 2

MaxCols == 1

\* -------------------------------------------------------------- text helpers

SeqsUpTo(S, n) == UNION {[1..k -> S] : k \in 0..n}

Lower == {"a","b","c","d","e","f","g","h","i","j","k","l","m",
          "n","o","p","q","r","s","t","u","v","w","x","y","z"}

Upper == {"A","B","C","D","E","F","G","H","I","J","K","L","M",
          "N","O","P","Q","R","S","T","U","V","W","X","Y","Z"}

Digits == {"0","1","2","3","4","5","6","7","8","9"}

\* [A-Za-z_]
IsIdentStart(c) == c \in Lower \cup Upper \cup {"_"}

\* \w
IsWord(c) == IsIdentStart(c) \/ c \in Digits

\* \s, and str.isspace on one character
IsSpace(c) == c \in {" ", "\t", "\n", "\r", "\f"}

\* "." of a pattern compiled without DOTALL
IsDot(c) == c # "\n"

\* --------------------------------------------------------------- TOKEN_RE

\* Whether character c is in the class cls of the pattern: ".", \w, \d or \s
InClass(cls, c) ==
    CASE cls = "." -> IsDot(c)
      [] cls = "w" -> IsWord(c)
      [] cls = "d" -> c \in Digits
      [] cls = "s" -> IsSpace(c)

\* A greedy cls* from index i on: the last index j >= i - 1 with all of
\* s[i..j] in the class
RECURSIVE RunEnd(_, _, _)
RunEnd(cls, s, i) ==
    IF i <= Len(s) /\ InClass(cls, s[i]) THEN RunEnd(cls, s, i + 1) ELSE i - 1

\* //.*
MatchComment(s, i) ==
    IF i + 1 <= Len(s) /\ s[i] = "/" /\ s[i + 1] = "/"
    THEN RunEnd(".", s, i + 2) ELSE 0

\* (?:\\.|[^q\\])*q from index j on: the index of the closing quote, or 0
RECURSIVE QuotedRest(_, _, _)
QuotedRest(s, j, q) ==
    IF j > Len(s) THEN 0
    ELSE IF s[j] = q THEN j
    ELSE IF s[j] = "\\"
         THEN IF j + 1 <= Len(s) /\ IsDot(s[j + 1])
              THEN QuotedRest(s, j + 2, q) ELSE 0
    ELSE QuotedRest(s, j + 1, q)

\* "(?:\\.|[^"\\])*" and '(?:\\.|[^'\\])*'
MatchQuoted(s, i, q) == IF s[i] = q THEN QuotedRest(s, i + 1, q) ELSE 0

\* @[A-Za-z_]\w*
MatchDecorator(s, i) ==
    IF i + 1 <= Len(s) /\ s[i] = "@" /\ IsIdentStart(s[i + 1])
    THEN RunEnd("w", s, i + 2) ELSE 0

\* \b[A-Za-z_]\w*\b
MatchIdentifier(s, i) ==
    IF IsIdentStart(s[i]) /\ (i = 1 \/ ~IsWord(s[i - 1]))
    THEN RunEnd("w", s, i + 1) ELSE 0

\* (?:_\d+)* after the digits ending at index e
RECURSIVE NumberGroups(_, _)
NumberGroups(s, e) ==
    IF e + 2 <= Len(s) /\ s[e + 1] = "_" /\ s[e + 2] \in Digits
    THEN NumberGroups(s, RunEnd("d", s, e + 2)) ELSE e

\* \d+(?:_\d+)*
MatchNumber(s, i) ==
    IF s[i] \in Digits
    THEN NumberGroups(s, RunEnd("d", s, i)) ELSE 0

\* \s+
MatchSpace(s, i) == IF IsSpace(s[i]) THEN RunEnd("s", s, i) ELSE 0

\* .
MatchAny(s, i) == IF IsDot(s[i]) THEN i ELSE 0

TOKEN_RE_NoFallback(s, i) ==
    IF MatchComment(s, i) # 0 THEN MatchComment(s, i)
    ELSE IF MatchQuoted(s, i, "\"") # 0 THEN MatchQuoted(s, i, "\"")
    ELSE IF MatchQuoted(s, i, "'") # 0 THEN MatchQuoted(s, i, "'")
    ELSE IF MatchDecorator(s, i) # 0 THEN MatchDecorator(s, i)
    ELSE IF MatchIdentifier(s, i) # 0 THEN MatchIdentifier(s, i)
    ELSE IF MatchNumber(s, i) # 0 THEN MatchNumber(s, i)
    ELSE MatchSpace(s, i)

\* The end of the match of TOKEN_RE at index i (0: no match there): the first
\* alternative, left to right, that matches.
TOKEN_RE(s, i) ==
    IF MatchComment(s, i) # 0 THEN MatchComment(s, i)
    ELSE IF MatchQuoted(s, i, "\"") # 0 THEN MatchQuoted(s, i, "\"")
    ELSE IF MatchQuoted(s, i, "'") # 0 THEN MatchQuoted(s, i, "'")
    ELSE IF MatchDecorator(s, i) # 0 THEN MatchDecorator(s, i)
    ELSE IF MatchIdentifier(s, i) # 0 THEN MatchIdentifier(s, i)
    ELSE IF MatchNumber(s, i) # 0 THEN MatchNumber(s, i)
    ELSE IF MatchSpace(s, i) # 0 THEN MatchSpace(s, i)
    ELSE MatchAny(s, i)

\* TOKEN_RE.findall(s) from index i on: the matches, left to right, each
\* search resuming where the last match ended.
RECURSIVE FindAll(_, _)
FindAll(s, i) ==
    IF i > Len(s) THEN <<>>
    ELSE IF TOKEN_RE(s, i) = 0 THEN FindAll(s, i + 1)
    ELSE <<SubSeq(s, i, TOKEN_RE(s, i))>> \o FindAll(s, TOKEN_RE(s, i) + 1)

\* ------------------------------------------------------ highlight_code_line

JAVA_KEYWORDS == {
    <<"a","s","s","e","r","t">>, <<"b","o","o","l","e","a","n">>, <<"b","y","t","e">>,
    <<"c","a","s","e">>, <<"c","a","t","c","h">>, <<"c","h","a","r">>,
    <<"c","l","a","s","s">>, <<"d","e","f","a","u","l","t">>,
    <<"d","o","u","b","l","e">>, <<"e","l","s","e">>, <<"e","n","u","m">>,
    <<"e","x","t","e","n","d","s">>, <<"f","i","n","a","l">>,
    <<"f","i","n","a","l","l","y">>, <<"f","l","o","a","t">>, <<"f","o","r">>,
    <<"i","f">>, <<"i","m","p","l","e","m","e","n","t","s">>,
    <<"i","m","p","o","r","t">>, <<"i","n","t">>,
    <<"i","n","t","e","r","f","a","c","e">>, <<"l","o","n","g">>, <<"n","e","w">>,
    <<"o","v","e","r","r","i","d","e">>, <<"p","a","c","k","a","g","e">>,
    <<"p","r","i","v","a","t","e">>, <<"p","r","o","t","e","c","t","e","d">>,
    <<"p","u","b","l","i","c">>, <<"r","e","t","u","r","n">>, <<"s","h","o","r","t">>,
    <<"s","t","a","t","i","c">>, <<"s","u","p","e","r">>, <<"s","w","i","t","c","h">>,
    <<"t","h","i","s">>, <<"t","h","r","o","w">>, <<"t","h","r","o","w","s">>,
    <<"t","r","y">>, <<"v","o","i","d">>, <<"w","h","i","l","e">>}

JAVA_LITERALS == {<<"f","a","l","s","e">>, <<"n","u","l","l">>, <<"t","r","u","e">>}

\* NUMBER_TOKEN_RE.match(token): ^\d+(?:_\d+)*$, where $ also matches before
\* a final newline
NUMBER_TOKEN_RE(token) ==
    /\ token # <<>>
    /\ MatchNumber(token, 1) # 0
    /\ \/ MatchNumber(token, 1) = Len(token)
       \/ MatchNumber(token, 1) = Len(token) - 1 /\ token[Len(token)] = "\n"

\* IDENTIFIER_TOKEN_RE.match(token): ^[A-Za-z_]\w*$
IDENTIFIER_TOKEN_RE(token) ==
    /\ token # <<>>
    /\ IsIdentStart(token[1])
    /\ \/ RunEnd("w", token, 2) = Len(token)
       \/ RunEnd("w", token, 2) = Len(token) - 1 /\ token[Len(token)] = "\n"

\* token.startswith(prefix)
StartsWith(token, prefix) ==
    Len(token) >= Len(prefix) /\ SubSeq(token, 1, Len(prefix)) = prefix

\* token.isspace()
IsSpaceStr(token) == token # <<>> /\ \A k \in 1..Len(token) : IsSpace(token[k])

RunData(text, color, bold, italic) ==
    [text |-> text, color |-> color, bold |-> bold, italic |-> italic]

LookAheadNoSkip(tokens, look_ahead) == look_ahead

\* Lines 470-472: the index of the first token at or after look_ahead that is
\* not whitespace, or Len(tokens) + 1.
RECURSIVE LookAhead(_, _)
LookAhead(tokens, look_ahead) ==
    IF look_ahead <= Len(tokens) /\ IsSpaceStr(tokens[look_ahead])
    THEN LookAhead(tokens, look_ahead + 1) ELSE look_ahead

\* Lines 449-479 for the token at index i (1-based), which is no comment.
StyledRun(tokens, i) ==
    LET token == tokens[i]
        la == LookAhead(tokens, i + 1)
    IN  IF token[1] \in {"\"", "'"} /\ Len(token) >= 2
            THEN RunData(token, "86EFAC", FALSE, FALSE)
        ELSE IF StartsWith(token, <<"@">>)
            THEN RunData(token, "F0ABFC", TRUE, FALSE)
        ELSE IF NUMBER_TOKEN_RE(token)
            THEN RunData(token, "FDBA74", FALSE, FALSE)
        ELSE IF token \in JAVA_LITERALS
            THEN RunData(token, "FCA5A5", TRUE, FALSE)
        ELSE IF token \in JAVA_KEYWORDS
            THEN RunData(token, "93C5FD", TRUE, FALSE)
        ELSE IF IDENTIFIER_TOKEN_RE(token)
            THEN IF la <= Len(tokens) /\ tokens[la] = <<"(">>
                    /\ token \notin JAVA_KEYWORDS
                 THEN RunData(token, "C4B5FD", FALSE, FALSE)
                 ELSE IF token[1] \in Upper
                      THEN RunData(token, "67E8F9", FALSE, FALSE)
                      ELSE RunData(token, "E2E8F0", FALSE, FALSE)
        ELSE RunData(token, "E2E8F0", FALSE, FALSE)

RECURSIVE HighlightLoopNoBreak(_, _)
HighlightLoopNoBreak(tokens, i) ==
    IF i > Len(tokens) THEN <<>>
    ELSE IF StartsWith(tokens[i], <<"/", "/">>)
         THEN <<RunData(tokens[i], "94A3B8", FALSE, TRUE)>>
              \o HighlightLoopNoBreak(tokens, i + 1)
    ELSE <<StyledRun(tokens, i)>> \o HighlightLoopNoBreak(tokens, i + 1)

\* The loop of lines 448-479 from token index i on; a comment token ends it.
RECURSIVE HighlightLoop(_, _)
HighlightLoop(tokens, i) ==
    IF i > Len(tokens) THEN <<>>
    ELSE IF StartsWith(tokens[i], <<"/", "/">>)
         THEN <<RunData(tokens[i], "94A3B8", FALSE, TRUE)>>
    ELSE <<StyledRun(tokens, i)>> \o HighlightLoop(tokens, i + 1)

highlight_code_line(s) == HighlightLoop(FindAll(s, 1), 1)

\* ------------------------------------------------------------ slide data

\* Python's None in a field that otherwise holds a string
None == "None"

\* The empty string where a relationship id is expected
EmptyStr == <<>>

\* f"rId{k}"
RId(k) == <<"rId", k>>

\* bool(s) for a string field: None and "" are false
Truthy(s) == s # None /\ s # ""

\* slide.table = None
NoTable == [is_none |-> TRUE]

\* col_widths = <<>> stands for None and for []: line 333 reads the field
\* through its truth value first
TableData(headers, rows, col_widths) ==
    [headers |-> headers, rows |-> rows, col_widths |-> col_widths]

IndexEntry(target_title) == [target_title |-> target_title]

\* The fields of SlideData that slide_xml's shape tree and generate_pptx's
\* relationships read.  index_entries = <<>> stands for None and for []:
\* the code reads the field only through its truth value and its items.
SlideData(title, image_key, image_caption, code, footer, table, index_entries) ==
    [title |-> title, image_key |-> image_key, image_caption |-> image_caption,
     code |-> code, footer |-> footer, table |-> table,
     index_entries |-> index_entries]

\* ------------------------------------------------------------ slide_rels_xml

Relationship(id, type, base, n, suffix) ==
    [Id |-> id, Type |-> type, Target |-> [base |-> base, n |-> n, suffix |-> suffix]]

\* image_name = None
NoImage == <<>>

\* f"image{i}.png"
ImageName(i) == <<"image", i, ".png">>

\* Line 792-794
LayoutRels ==
    <<Relationship(RId(1), "slideLayout", "../slideLayouts/slideLayout1.xml", 0, "")>>

\* Lines 797-800
ImageRels(image_name, next_rid) ==
    IF image_name # NoImage
    THEN <<Relationship(RId(next_rid), "image", "../media/image", image_name[2], ".png")>>
    ELSE <<>>

NextRidKeptAfterImage(image_name, next_rid) == next_rid

\* Lines 796-801: next_rid after the image relationship
NextRidAfterImage(image_name, next_rid) ==
    IF image_name # NoImage THEN next_rid + 1 ELSE next_rid

\* Lines 804-810
RECURSIVE LinkRels(_, _)
LinkRels(targets, next_rid) ==
    IF targets = <<>> THEN <<>>
    ELSE <<Relationship(RId(next_rid), "slide", "slide", Head(targets), ".xml")>>
         \o LinkRels(Tail(targets), next_rid + 1)

slide_rels_xml(image_name, targets) ==
    LET links == LinkRels(targets, NextRidAfterImage(image_name, 2))
    IN  [relationships |-> LayoutRels \o ImageRels(image_name, 2) \o links,
         link_rids |-> [k \in 1..Len(links) |-> links[k].Id]]

\* ---------------------------------------------------------------- table_xml

Max(a, b) == IF a >= b THEN a ELSE b

Min(a, b) == IF a <= b THEN a ELSE b

\* table_cell_xml(text, fill_color, text_color, bold, align, size)
TableCell(text, fill_color, bold, align) ==
    [text |-> text, fill_color |-> fill_color, bold |-> bold, align |-> align]

TableColumnsEqualSplit(cx, t) ==
    IF t.col_widths # <<>> /\ Len(t.col_widths) = Len(t.headers)
    THEN t.col_widths
    ELSE [k \in 1..Len(t.headers) |-> cx \div Len(t.headers)]

\* Lines 333-338
TableColumns(cx, t) ==
    LET col_count == Len(t.headers)
        per == cx \div col_count
    IN  IF t.col_widths # <<>> /\ Len(t.col_widths) = col_count
        THEN t.col_widths
        ELSE [k \in 1..col_count |->
                IF k = col_count THEN per + (cx - (per * col_count)) ELSE per]

\* Lines 344-348
HeaderCells(t) ==
    [k \in 1..Len(t.headers) |->
        TableCell(t.headers[k], "DBEAFE", TRUE, IF k = 1 THEN "l" ELSE "ctr")]

PaddedRowNoTruncate(raw_row, col_count) ==
    raw_row \o [k \in 1..Max(0, col_count - Len(raw_row)) |-> ""]

\* Line 351: raw_row[:col_count] + ([""] * max(0, col_count - len(raw_row)))
PaddedRow(raw_row, col_count) ==
    SubSeq(raw_row, 1, Min(col_count, Len(raw_row)))
    \o [k \in 1..Max(0, col_count - Len(raw_row)) |-> ""]

\* Lines 350-366 for the row at index r, which is the code's row_idx = r - 1
RowCells(t, r) ==
    LET row == PaddedRow(t.rows[r], Len(t.headers))
        data_fill == IF (r - 1) % 2 = 0 THEN "FFFFFF" ELSE "F8FAFC"
    IN  [k \in 1..Len(row) |->
            TableCell(row[k], IF k = 1 THEN "F8FAFC" ELSE data_fill, k = 1, "l")]

NoMarkup == <<>>

table_xml_no_test(shape_id, cx, cy, t) ==
    [raised |-> FALSE, markup |-> NoMarkup]

\* Lines 328-388: the ValueError of line 331, or the graphic frame with its
\* grid columns and rows
table_xml(shape_id, cx, cy, t) ==
    IF Len(t.headers) = 0
    THEN [raised |-> TRUE, markup |-> NoMarkup]
    ELSE [raised |-> FALSE,
          markup |-> [id |-> shape_id,
                      gridCols |-> TableColumns(cx, t),
                      row_height |-> Max(295000, cy \div Max(1, Len(t.rows) + 1)),
                      rows |-> <<HeaderCells(t)>>
                               \o [r \in 1..Len(t.rows) |-> RowCells(t, r)]]]

\* ---------------------------------------------------------------- slide_xml

Shape(shape_id, name, entry, rid) ==
    [id |-> shape_id, name |-> name, entry |-> entry, rid |-> rid]

\* shapes.append(...) with shape_id=next_shape_id
Emit(st, name, entry, rid) ==
    [st EXCEPT !.shapes = Append(@, Shape(st.next_shape_id, name, entry, rid))]

\* next_shape_id += 1
Inc(st) == [st EXCEPT !.next_shape_id = @ + 1]

has_table(s) == s.table # NoTable

has_index(s) == s.index_entries # <<>>

\* Line 532
image_only_layout(s) ==
    s.image_key # None /\ s.code = None /\ ~has_table(s) /\ ~has_index(s)

\* Lines 491-578
HeadShapes(st) ==
    Inc(Emit(Inc(Emit(Inc(Emit(st, "Top Accent", 0, EmptyStr)),
                      "Title", 0, EmptyStr)),
             "Body", 0, EmptyStr))

\* Lines 580-615
PictureShapes(st, s) ==
    IF image_only_layout(s)
    THEN LET pic == Inc(Emit(st, "Illustration", 0, RId(2)))
         IN  IF Truthy(s.image_caption)
             THEN Inc(Emit(pic, "Image Caption", 0, EmptyStr)) ELSE pic
    ELSE st

\* Lines 617-628, with table_xml's test of lines 329-331: the ValueError
\* leaves slide_xml at once, so no later block runs once st.raised is set
TableShapes(st, s) ==
    IF has_table(s)
    THEN IF table_xml(st.next_shape_id, 11277600, 3901440, s.table).raised
         THEN [st EXCEPT !.raised = TRUE]
         ELSE Inc(Emit(st, "Data Table", 0, EmptyStr))
    ELSE st

\* Lines 632-634
PadRids(index_link_rids, card_entries) ==
    IF Len(index_link_rids) < Len(card_entries)
    THEN index_link_rids
         \o [k \in 1..(Len(card_entries) - Len(index_link_rids)) |-> EmptyStr]
    ELSE index_link_rids

RECURSIVE CardLoopSkipTakesId(_, _, _, _)
CardLoopSkipTakesId(st, card_entries, rids, i) ==
    IF i > Len(card_entries) THEN st
    ELSE LET rid == IF i <= Len(rids) THEN rids[i] ELSE EmptyStr
         IN  IF rid = EmptyStr
             THEN CardLoopSkipTakesId(Inc(st), card_entries, rids, i + 1)
             ELSE CardLoopSkipTakesId(Inc(Emit(st, "Index Card", i, rid)),
                                      card_entries, rids, i + 1)

\* Lines 642-662: the entry at index i here is the code's idx = i - 1
RECURSIVE CardLoop(_, _, _, _)
CardLoop(st, card_entries, rids, i) ==
    IF i > Len(card_entries) THEN st
    ELSE LET rid == IF i <= Len(rids) THEN rids[i] ELSE EmptyStr
         IN  IF rid = EmptyStr
             THEN CardLoop(st, card_entries, rids, i + 1)
             ELSE CardLoop(Inc(Emit(st, "Index Card", i, rid)),
                           card_entries, rids, i + 1)

\* Lines 630-662
IndexShapes(st, s, index_link_rids) ==
    IF ~st.raised /\ has_index(s)
    THEN CardLoop(st, s.index_entries, PadRids(index_link_rids, s.index_entries), 1)
    ELSE st

\* Lines 664-714
CodeShapes(st, s) ==
    IF ~st.raised /\ s.code # None THEN Inc(Emit(st, "Code", 0, EmptyStr)) ELSE st

\* Lines 716-737
FooterShapes(st, s) ==
    IF ~st.raised /\ Truthy(s.footer)
    THEN Inc(Emit(st, "Footer", 0, EmptyStr)) ELSE st

\* Lines 739-759
PageNumberShape(st) ==
    IF ~st.raised THEN Emit(st, "Slide Number", 0, EmptyStr) ELSE st

slide_xml_footer_first(s, index_link_rids) ==
    LET s0 == [shapes |-> <<>>, next_shape_id |-> 2, raised |-> FALSE]
        s1 == HeadShapes(s0)
        s2 == PictureShapes(s1, s)
        s3 == TableShapes(s2, s)
        s4 == IndexShapes(s3, s, index_link_rids)
        s5 == FooterShapes(s4, s)
        s6 == CodeShapes(s5, s)
    IN  PageNumberShape(s6)

\* Lines 489-759: the shape tree, or the ValueError of table_xml
slide_xml(s, index_link_rids) ==
    LET s0 == [shapes |-> <<>>, next_shape_id |-> 2, raised |-> FALSE]
        s1 == HeadShapes(s0)
        s2 == PictureShapes(s1, s)
        s3 == TableShapes(s2, s)
        s4 == IndexShapes(s3, s, index_link_rids)
        s5 == CodeShapes(s4, s)
        s6 == FooterShapes(s5, s)
    IN  PageNumberShape(s6)

\* ------------------------------------------------------- content_types_xml

\* An archive path: prefix, the number n when n > 0, "." and each extension
Part(prefix, n, exts) == [prefix |-> prefix, n |-> n, exts |-> exts]

\* The extension a package reader maps through a Default entry
Extension(p) == p.exts[Len(p.exts)]

SlidePart(i) == Part("ppt/slides/slide", i, <<"xml">>)

SlideRelsPart(i) == Part("ppt/slides/_rels/slide", i, <<"xml", "rels">>)

MediaPart(i) == Part("ppt/media/image", i, <<"png">>)

ContentTypesPart == Part("[Content_Types]", 0, <<"xml">>)

SlideOverridesOneMore(slide_count) == {SlidePart(i) : i \in 1..(slide_count + 1)}

\* Lines 875-878: the Override entries of the slides.  An Override's PartName
\* is the archive path with "/" before it.
SlideOverrides(slide_count) == {SlidePart(i) : i \in 1..slide_count}

\* Lines 880-896
content_types_xml(slide_count) ==
    [defaults |-> {"rels", "xml", "png"},
     overrides |->
        {Part("ppt/presentation", 0, <<"xml">>),
         Part("ppt/slideMasters/slideMaster1", 0, <<"xml">>),
         Part("ppt/slideLayouts/slideLayout1", 0, <<"xml">>),
         Part("ppt/theme/theme1", 0, <<"xml">>),
         Part("ppt/presProps", 0, <<"xml">>),
         Part("ppt/viewProps", 0, <<"xml">>),
         Part("ppt/tableStyles", 0, <<"xml">>),
         Part("docProps/core", 0, <<"xml">>),
         Part("docProps/app", 0, <<"xml">>)} \cup SlideOverrides(slide_count)]

\* ------------------------- presentation_xml, presentation_rels_xml, app.xml

\* Lines 821-826: the p:sldId entries after the loop has run n times, with
\* rel_id starting at 2
RECURSIVE SlideIds(_)
SlideIds(n) ==
    IF n = 0 THEN <<>>
    ELSE Append(SlideIds(n - 1), [id |-> 256 + (n - 1), rid |-> RId(2 + (n - 1))])

\* Lines 821-846
presentation_xml(slide_count) ==
    [sldMasterId |-> RId(1), sldIdLst |-> SlideIds(slide_count)]

\* Lines 849-866
presentation_rels_xml(slide_count) ==
    LET next_rid == 2 + slide_count
    IN  <<Relationship(RId(1), "slideMaster", "slideMasters/slideMaster1.xml", 0, "")>>
        \o [i \in 1..slide_count |->
                Relationship(RId(2 + (i - 1)), "slide", "slides/slide", i, ".xml")]
        \o <<Relationship(RId(next_rid), "presProps", "presProps.xml", 0, ""),
              Relationship(RId(next_rid + 1), "viewProps", "viewProps.xml", 0, ""),
              Relationship(RId(next_rid + 2), "tableStyles", "tableStyles.xml", 0, "")>>

\* Line 921: the Slides element
docprops_app_xml(slide_count) == [Slides |-> slide_count]

\* ------------------------------------------------------------ generate_pptx

\* sorted(build_image_assets().keys()), lines 1356-1362 and 2858
SortedImageKeys ==
    <<"approach_fit", "cover_overview", "problem_context", "rollout_timeline">>

\* Line 2858: image_names, a dict from key to f"image{idx}.png"
image_names ==
    [k \in {SortedImageKeys[i] : i \in DOMAIN SortedImageKeys} |->
        ImageName(CHOOSE i \in DOMAIN SortedImageKeys : SortedImageKeys[i] = k)]

\* d[k] = v on a dict d
DictSet(d, k, v) == [x \in DOMAIN d \cup {k} |-> IF x = k THEN v ELSE d[x]]

RECURSIVE TitleToIndexFromZero(_, _)
TitleToIndexFromZero(ts, n) ==
    IF n = 0 THEN <<>> ELSE DictSet(TitleToIndexFromZero(ts, n - 1), ts[n], n - 1)

\* Line 2860: the dict comprehension over enumerate(slides, start=1), after
\* its first n items; a later item with the same title replaces the earlier.
RECURSIVE TitleToIndex(_, _)
TitleToIndex(ts, n) ==
    IF n = 0 THEN <<>> ELSE DictSet(TitleToIndex(ts, n - 1), ts[n], n)

title_to_index(ts) == TitleToIndex(ts, Len(ts))

\* Line 2888
ImageNameOf(s) ==
    IF Truthy(s.image_key)
    THEN IF s.image_key \in DOMAIN image_names
         THEN image_names[s.image_key] ELSE NoImage
    ELSE NoImage

\* Lines 2889-2894
RECURSIVE LinkTargets(_, _)
LinkTargets(entries, d) ==
    IF entries = <<>> THEN <<>>
    ELSE IF Head(entries).target_title \in DOMAIN d
         THEN <<d[Head(entries).target_title]>> \o LinkTargets(Tail(entries), d)
         ELSE LinkTargets(Tail(entries), d)

\* Lines 2865-2882, the [Content_Types].xml entry apart
FixedParts ==
    {Part("_rels/", 0, <<"rels">>),
     Part("docProps/app", 0, <<"xml">>),
     Part("docProps/core", 0, <<"xml">>),
     Part("ppt/presentation", 0, <<"xml">>),
     Part("ppt/_rels/presentation", 0, <<"xml", "rels">>),
     Part("ppt/presProps", 0, <<"xml">>),
     Part("ppt/viewProps", 0, <<"xml">>),
     Part("ppt/tableStyles", 0, <<"xml">>),
     Part("ppt/theme/theme1", 0, <<"xml">>),
     Part("ppt/slideMasters/slideMaster1", 0, <<"xml">>),
     Part("ppt/slideMasters/_rels/slideMaster1", 0, <<"xml", "rels">>),
     Part("ppt/slideLayouts/slideLayout1", 0, <<"xml">>),
     Part("ppt/slideLayouts/_rels/slideLayout1", 0, <<"xml", "rels">>)}

\* Lines 2884-2885
MediaParts == {MediaPart(image_names[k][2]) : k \in DOMAIN image_names}

\* ------------------------------------------------------------ input domains

Titles == {"A", "B"}

\* "C" is the title of no slide
TargetTitles == Titles \cup {"C"}

\* None, "", a key of build_image_assets, a key that names no asset
ImageKeys == {None, "", "cover_overview", "missing_key"}

Headers(k) == [i \in 1..k |-> "h"]

\* No table, or a table of up to MaxCols header columns, with no row or one
\* row of one cell, without or with explicit column widths
Tables ==
    {NoTable} \cup {TableData(Headers(k), rows, col_widths) :
                        k \in 0..MaxCols,
                        rows \in {<<>>, <<<<"cell">>>>},
                        col_widths \in {<<>>, <<914400>>}}

IndexEntries == {IndexEntry(t) : t \in TargetTitles}

SlidesTitled(t) ==
    {SlideData(t, ik, cap, code, footer, table, entries) :
        ik \in ImageKeys, cap \in {None, "caption"}, code \in {None, "code"},
        footer \in {None, "footer"}, table \in Tables,
        entries \in SeqsUpTo(IndexEntries, MaxEntries)}

NoSlide == SlideData(None, None, None, None, None, NoTable, <<>>)

NoManifest == [defaults |-> {}, overrides |-> {}]

NoFixedParts == <<>>

\* ------------------------------------------------- generate_pptx, the steps

\* The highlighter's variables, at rest while generate_pptx runs
HighlightIdle == line = <<>> /\ runs = <<>> /\ hpc = "idle"

\* Lines 2857-2864: the slide list is given, the archive is open and empty.
\* Only the titles of the list are fixed here; the other fields of a slide
\* are read, and so chosen, when the loop of line 2887 reaches it.
Init ==
    /\ pc = "open"
    /\ titles \in SeqsUpTo(Titles, MaxSlides)
    /\ idx = 0
    /\ slide = NoSlide
    /\ link_targets = <<>>
    /\ rel_xml = <<>>
    /\ link_rids = <<>>
    /\ shapes = <<>>
    /\ archive = {}
    /\ manifest = NoManifest
    /\ fixed_parts = NoFixedParts
    /\ HighlightIdle
    /\ LibIdle

\* Lines 2865-2882
WriteFixedParts ==
    /\ pc = "open"
    /\ manifest' = content_types_xml(Len(titles))
    /\ fixed_parts' = [presentation |-> presentation_xml(Len(titles)),
                       presentation_rels |-> presentation_rels_xml(Len(titles)),
                       app |-> docprops_app_xml(Len(titles))]
    /\ archive' = archive \cup {ContentTypesPart} \cup FixedParts
    /\ pc' = "media"
    /\ UNCHANGED <<titles, idx, slide, link_targets, rel_xml, link_rids, shapes>>
    /\ UNCHANGED <<hlVars, libVars>>

\* Lines 2884-2885
WriteMedia ==
    /\ pc = "media"
    /\ archive' = archive \cup MediaParts
    /\ pc' = "slides"
    /\ UNCHANGED <<titles, idx, slide, link_targets, rel_xml, link_rids, shapes,
                   manifest, fixed_parts>>
    /\ UNCHANGED <<hlVars, libVars>>

\* Lines 2887-2897, one iteration up to the return of slide_xml: the slide's
\* relationships and shape tree are built, nothing of it is written yet.
ComposeSlide ==
    /\ pc = "slides"
    /\ idx < Len(titles)
    /\ \E s \in SlidesTitled(titles[idx + 1]) :
        LET targets == LinkTargets(s.index_entries, title_to_index(titles))
            rels == slide_rels_xml(ImageNameOf(s), targets)
            xml == slide_xml(s, rels.link_rids)
        IN  /\ ~xml.raised
            /\ slide' = s
            /\ link_targets' = targets
            /\ rel_xml' = rels.relationships
            /\ link_rids' = rels.link_rids
            /\ shapes' = xml.shapes
    /\ idx' = idx + 1
    /\ pc' = "composed"
    /\ UNCHANGED <<titles, archive, manifest, fixed_parts>>
    /\ UNCHANGED <<hlVars, libVars>>

\* Lines 2887-2897, one iteration: table_xml raises ValueError inside
\* slide_xml.  Nothing of this slide is written; the with statement of line
\* 2864 closes the archive as the exception leaves generate_pptx.
ComposeSlideRaises ==
    /\ pc = "slides"
    /\ idx < Len(titles)
    /\ \E s \in SlidesTitled(titles[idx + 1]) :
        LET targets == LinkTargets(s.index_entries, title_to_index(titles))
            rels == slide_rels_xml(ImageNameOf(s), targets)
            xml == slide_xml(s, rels.link_rids)
        IN  /\ xml.raised
            /\ slide' = s
            /\ link_targets' = targets
            /\ rel_xml' = rels.relationships
            /\ link_rids' = rels.link_rids
            /\ shapes' = <<>>
    /\ idx' = idx + 1
    /\ pc' = "raised"
    /\ UNCHANGED <<titles, archive, manifest, fixed_parts>>
    /\ UNCHANGED <<hlVars, libVars>>

\* Lines 2897-2898: both parts of the slide are written and the iteration
\* ends.  Its locals are dead from here on (the next iteration assigns each
\* before reading it), so they are cleared.
WriteSlide ==
    /\ pc = "composed"
    /\ archive' = archive \cup {SlidePart(idx), SlideRelsPart(idx)}
    /\ slide' = NoSlide
    /\ link_targets' = <<>>
    /\ rel_xml' = <<>>
    /\ link_rids' = <<>>
    /\ shapes' = <<>>
    /\ pc' = "slides"
    /\ UNCHANGED <<titles, idx, manifest, fixed_parts>>
    /\ UNCHANGED <<hlVars, libVars>>

\* Line 2864, the end of the with statement after the last slide
Close ==
    /\ pc = "slides"
    /\ idx = Len(titles)
    /\ pc' = "done"
    /\ UNCHANGED <<titles, idx, slide, link_targets, rel_xml, link_rids, shapes,
                   archive, manifest, fixed_parts>>
    /\ UNCHANGED <<hlVars, libVars>>

Next ==
    \/ WriteFixedParts
    \/ WriteMedia
    \/ ComposeSlide
    \/ ComposeSlideRaises
    \/ WriteSlide
    \/ Close

Spec == Init /\ [][Next]_vars

\* -------------------------------------------- highlight_code_line, the steps

\* The characters the input lines are drawn from: a letter, a digit, the
\* underscore, both quotes, the backslash, "@", "/", "(", the space, the tab
\* and the newline.
Alphabet == {"a", "1", "_", "\"", "'", "\\", "@", "/", "(", " ", "\t", "\n"}

PptxIdle ==
    /\ pc = "idle" /\ titles = <<>> /\ idx = 0 /\ slide = NoSlide
    /\ link_targets = <<>> /\ rel_xml = <<>> /\ link_rids = <<>>
    /\ shapes = <<>> /\ archive = {} /\ manifest = NoManifest
    /\ fixed_parts = NoFixedParts

InitHighlight ==
    /\ line \in SeqsUpTo(Alphabet, MaxLen)
    /\ runs = <<>>
    /\ hpc = "input"
    /\ PptxIdle
    /\ LibIdle

\* Lines 442-480
Highlight ==
    /\ hpc = "input"
    /\ runs' = highlight_code_line(line)
    /\ hpc' = "done"
    /\ UNCHANGED line
    /\ UNCHANGED <<pptxVars, libVars>>

NextHighlight == Highlight

SpecHighlight == InitHighlight /\ [][NextHighlight]_vars

\* ------------------------------------------------------------- properties

Range(f) == {f[x] : x \in DOMAIN f}

\* The shapes of the slide under way that are index cards of entry i
CardsOf(i) ==
    {j \in DOMAIN shapes : shapes[j].name = "Index Card" /\ shapes[j].entry = i}

\* The relationships of the slide under way with id rid and type type
RelsWith(rid, type) ==
    {k \in DOMAIN rel_xml : rel_xml[k].Id = rid /\ rel_xml[k].Type = type}

IsResolvable(e) == e.target_title \in Range(titles)

Resolvable == SelectSeq(slide.index_entries, IsResolvable)

NavRels == SelectSeq(rel_xml, LAMBDA r : r.Type = "slide")

\* C1: for every index entry e of a composed slide, an index card is emitted
\* for e exactly when e.target_title is the title of some slide, and the
\* hyperlink id the card carries is a slide relationship of the same slide
\* whose target slide has the title e.target_title.
C1_CardsFollowEntries ==
    pc = "composed" =>
        \A i \in DOMAIN slide.index_entries :
            /\ (CardsOf(i) # {}) <=> IsResolvable(slide.index_entries[i])
            /\ \A j \in CardsOf(i) :
                \E k \in RelsWith(shapes[j].rid, "slide") :
                    /\ rel_xml[k].Target.n \in DOMAIN titles
                    /\ titles[rel_xml[k].Target.n] = slide.index_entries[i].target_title

FirstPosition(t) ==
    CHOOSE i \in DOMAIN titles :
        titles[i] = t /\ \A j \in DOMAIN titles : titles[j] = t => i <= j

\* C3: an index entry whose target title is carried by several slides
\* resolves to the first of them, the one at the lowest position.
C3_DuplicateTitleFirstMatch ==
    pc = "composed" =>
        \A k \in DOMAIN link_targets :
            link_targets[k] = FirstPosition(Resolvable[k].target_title)

IsSlidePath(p) == p.prefix = "ppt/slides/slide" /\ p.exts = <<"xml">>

C5_ReferencedIdsDefined ==
    pc = "composed" =>
        \A j \in DOMAIN shapes :
            shapes[j].rid # EmptyStr =>
                RelsWith(shapes[j].rid,
                         IF shapes[j].name = "Illustration" THEN "image" ELSE "slide") # {}

\* The names of the shapes of the slide under way
ShapeNames == {shapes[j].name : j \in DOMAIN shapes}

\* C23: a composed slide has at most one of a picture, a table frame and
\* index cards; a slide with a table and index entries does not get both
\* the table and the cards.
C23_MiddleKindsExclusive ==
    pc = "composed" =>
        Cardinality(ShapeNames \cap {"Illustration", "Data Table", "Index Card"}) <= 1

\* C25: the relationship part of a composed slide has an image
\* relationship exactly when the slide's content part has a picture that
\* embeds it.
C25_ImageRelIffPicture ==
    pc = "composed" =>
        ((\E k \in DOMAIN rel_xml : rel_xml[k].Type = "image")
            <=> (\E j \in DOMAIN shapes :
                    /\ shapes[j].name = "Illustration"
                    /\ RelsWith(shapes[j].rid, "image") # {}))

\* presentation.xml, presentation.xml.rels, app.xml and the slide parts of
\* the archive agree on the N slides of the list
PartsAgree ==
    LET N == Len(titles)
        ids == fixed_parts.presentation.sldIdLst
        rels == fixed_parts.presentation_rels
    IN  /\ Len(ids) = N
        /\ \A i \in 1..N : ids[i].id = 255 + i /\ ids[i].rid = RId(i + 1)
        /\ Len(rels) = N + 4
        /\ \A j \in 1..Len(rels), k \in 1..Len(rels) :
                rels[j].Id = rels[k].Id => j = k
        /\ \E k \in 1..Len(rels) :
                rels[k].Id = RId(1) /\ rels[k].Type = "slideMaster"
        /\ \A i \in 1..N : \E k \in 1..Len(rels) :
                /\ rels[k].Id = RId(i + 1) /\ rels[k].Type = "slide"
                /\ rels[k].Target = [base |-> "slides/slide", n |-> i, suffix |-> ".xml"]
        /\ {rels[k].Id : k \in {j \in 1..Len(rels) :
                                    rels[j].Type \notin {"slideMaster", "slide"}}}
                = {RId(N + 2), RId(N + 3), RId(N + 4)}
        /\ {q \in archive : q.prefix = "ppt/slides/slide"}
                = {SlidePart(i) : i \in 1..N}
        /\ {q \in archive : q.prefix = "ppt/slides/_rels/slide"}
                = {SlideRelsPart(i) : i \in 1..N}
        /\ fixed_parts.app.Slides = N

\* C26: once generate_pptx has ended on a list of N slides, presentation.xml
\* lists N slide ids 256..255+N, the i-th referring to rId(i+1);
\* presentation.xml.rels has rId1 for the slide master, rId(i+1) for
\* slides/slide<i>.xml, and three more relationships rId(N+2)..rId(N+4), all
\* ids distinct; the archive holds the slide parts slide1..slideN, each with
\* its relationship part, and no other; app.xml reports N slides.
C26_PresentationPartsAgree == pc \in {"done", "raised"} => PartsAgree

\* The parts agree whenever every slide was composed
AgreeWhenDone == pc = "done" => PartsAgree

\* C6: the shape ids of a composed slide are 2, 3, ..., k + 1 in emission
\* order, k the number of shapes emitted: pairwise distinct, none the group
\* id 1, no id consumed by a skipped card or an absent element.
C6_ShapeIdsConsecutive ==
    pc = "composed" => \A j \in DOMAIN shapes : shapes[j].id = j + 1

C6_Witness ==
    /\ pc = "composed"
    /\ Len(slide.index_entries) = 2
    /\ CardsOf(1) # {}
    /\ Cardinality({j \in DOMAIN shapes : shapes[j].name = "Index Card"}) = 1
    /\ slide.code # None
    /\ ~Truthy(slide.footer)
    /\ shapes[Len(shapes)].id = 7

\* The place of a shape in the fixed emission order
Rank(name) ==
    CASE name = "Top Accent" -> 1
      [] name = "Title" -> 2
      [] name = "Body" -> 3
      [] name = "Illustration" -> 4
      [] name = "Image Caption" -> 5
      [] name = "Data Table" -> 6
      [] name = "Index Card" -> 7
      [] name = "Code" -> 8
      [] name = "Footer" -> 9
      [] name = "Slide Number" -> 10

\* C7: the shapes of a composed slide follow the fixed order accent bar,
\* title, body, picture, caption, table, index cards, code block, footer,
\* page number: each kind at most once but for the cards, which come in entry
\* order; a caption comes right after the picture; accent bar, title and body
\* are the first three shapes and the page number is the last.
C7_ShapeOrder ==
    pc = "composed" =>
        /\ Len(shapes) >= 4
        /\ shapes[1].name = "Top Accent"
        /\ shapes[2].name = "Title"
        /\ shapes[3].name = "Body"
        /\ shapes[Len(shapes)].name = "Slide Number"
        /\ \A j \in 1..(Len(shapes) - 1) :
            /\ Rank(shapes[j].name) <= Rank(shapes[j + 1].name)
            /\ Rank(shapes[j].name) = Rank(shapes[j + 1].name) =>
                /\ shapes[j].name = "Index Card"
                /\ shapes[j].entry < shapes[j + 1].entry
            /\ shapes[j + 1].name = "Image Caption" => shapes[j].name = "Illustration"

C7_Witness ==
    /\ pc = "composed"
    /\ \E j \in DOMAIN shapes : shapes[j].name = "Data Table"
    /\ Cardinality({j \in DOMAIN shapes : shapes[j].name = "Index Card"}) = 2
    /\ \E j \in DOMAIN shapes : shapes[j].name = "Code"
    /\ \E j \in DOMAIN shapes : shapes[j].name = "Footer"

\* 1 for the layout relationship, 1 more when the slide has an image name
RelsBeforeLinks == IF ImageNameOf(slide) # NoImage THEN 2 ELSE 1

\* C8: in the relationship part of a composed slide the k-th relationship
\* has the id rId<k>, so the ids are pairwise distinct; rId1 is the slide
\* layout; an image, when present, is rId2; the navigation relationships
\* follow with the next ids, one per link target and in the order of the
\* link targets; and the returned link ids are theirs, in the same order.
C8_RelationshipIds ==
    pc = "composed" =>
        /\ \A k \in DOMAIN rel_xml : rel_xml[k].Id = RId(k)
        /\ rel_xml[1].Type = "slideLayout"
        /\ ImageNameOf(slide) # NoImage => rel_xml[2].Type = "image"
        /\ Len(rel_xml) = RelsBeforeLinks + Len(link_targets)
        /\ Len(link_rids) = Len(link_targets)
        /\ \A k \in DOMAIN link_targets :
            /\ rel_xml[RelsBeforeLinks + k].Type = "slide"
            /\ rel_xml[RelsBeforeLinks + k].Target.n = link_targets[k]
            /\ link_rids[k] = RId(RelsBeforeLinks + k)

C8_Witness ==
    /\ pc = "composed"
    /\ ImageNameOf(slide) # NoImage
    /\ Len(link_targets) = 2
    /\ link_targets[1] # link_targets[2]
    /\ link_rids = <<RId(3), RId(4)>>

RECURSIVE Concat(_)
Concat(ss) == IF ss = <<>> THEN <<>> ELSE Head(ss) \o Concat(Tail(ss))

RunTexts == [k \in DOMAIN runs |-> runs[k].text]

\* The index of the first "//" of s at or after i that is outside a complete
\* string or char literal, or 0: complete literals are stepped over whole.
RECURSIVE CommentScan(_, _)
CommentScan(s, i) ==
    IF i > Len(s) THEN 0
    ELSE IF s[i] \in {"\"", "'"} /\ MatchQuoted(s, i, s[i]) # 0
         THEN CommentScan(s, MatchQuoted(s, i, s[i]) + 1)
    ELSE IF i + 1 <= Len(s) /\ s[i] = "/" /\ s[i + 1] = "/" THEN i
    ELSE CommentScan(s, i + 1)

CommentStart(s) == CommentScan(s, 1)

\* The last index of the physical line of s that index p lies on
PhysicalLineEnd(s, p) ==
    IF \E k \in p..Len(s) : s[k] = "\n"
    THEN (CHOOSE k \in p..Len(s) :
            s[k] = "\n" /\ \A m \in p..(k - 1) : s[m] # "\n") - 1
    ELSE Len(s)

\* What the runs cover: all of s, or s up to the end of the physical line of
\* its first comment
CoveredEnd(s) ==
    IF CommentStart(s) = 0 THEN Len(s) ELSE PhysicalLineEnd(s, CommentStart(s))

\* C9, as claimed: for every input line over the alphabet, newline included,
\* the texts of the returned runs, concatenated in order, are the line.
C9_RunsReproduceLine ==
    hpc = "done" => Concat(RunTexts) = line

\* C9, amended: the texts of the returned runs, concatenated in order, are
\* the line up to the end of the physical line of its first "//" outside a
\* complete literal, and the whole line when it has no such "//" or no
\* newline after it.
C9_RunsReproduceLineUpToComment ==
    hpc = "done" => Concat(RunTexts) = SubSeq(line, 1, CoveredEnd(line))

C9_Witness ==
    /\ hpc = "done"
    /\ Len(line) = 4
    /\ line[1] = "\n"
    /\ CommentStart(line) = 3
    /\ Len(runs) = 3
    /\ Concat(RunTexts) = line

IsCommentRun(r) == r.italic \/ r.color = "94A3B8"

\* C10: for a line with a "//" outside a complete string or char literal the
\* runs end with one comment run (italic, comment colour) whose text runs
\* from the first such "//" to the end of its physical line, no other run is
\* a comment run, and the runs before it are the line before that "//"; a
\* line whose every "//" is inside a complete literal gets no comment run.
C10_CommentTruncation ==
    hpc = "done" =>
        IF CommentStart(line) # 0
        THEN /\ runs # <<>>
             /\ runs[Len(runs)] =
                    RunData(SubSeq(line, CommentStart(line),
                                   PhysicalLineEnd(line, CommentStart(line))),
                            "94A3B8", FALSE, TRUE)
             /\ \A k \in 1..(Len(runs) - 1) : ~IsCommentRun(runs[k])
             /\ Concat(SubSeq(RunTexts, 1, Len(runs) - 1))
                    = SubSeq(line, 1, CommentStart(line) - 1)
        ELSE \A k \in DOMAIN runs : ~IsCommentRun(runs[k])

C10_Witness ==
    /\ hpc = "done"
    /\ CommentStart(line) = 2
    /\ Len(runs) = 2
    /\ Len(runs[2].text) = 3
    /\ runs[2].italic

\* ------------------------------------------ identifier styles (lines 456-479)

MaxPieces == 3

\* Whole tokens the lines of SpecStyle are built from: a reserved word, a
\* literal, a lower-case, an upper-case and an underscore identifier, the
\* opening parenthesis, two kinds of whitespace and the comment marker.
Pieces == {<<"i","f">>, <<"n","u","l","l">>, <<"f">>, <<"F">>, <<"_">>,
           <<"(">>, <<" ">>, <<"\n">>, <<"/","/">>}

InitStyle ==
    /\ line \in {Concat(ps) : ps \in SeqsUpTo(Pieces, MaxPieces)}
    /\ runs = <<>>
    /\ hpc = "input"
    /\ PptxIdle
    /\ LibIdle

SpecStyle == InitStyle /\ [][NextHighlight]_vars

\* Run i is followed, after whitespace runs only, by the run "("
FollowedByParen(i) ==
    \E j \in (i + 1)..Len(runs) :
        /\ runs[j].text = <<"(">>
        /\ \A k \in (i + 1)..(j - 1) : IsSpaceStr(runs[k].text)

\* The colour and weight the priority list gives the identifier of run i
PriorityStyle(i) ==
    LET token == runs[i].text
    IN  IF token \in JAVA_KEYWORDS THEN <<"93C5FD", TRUE>>
        ELSE IF token \in JAVA_LITERALS THEN <<"FCA5A5", TRUE>>
        ELSE IF FollowedByParen(i) THEN <<"C4B5FD", FALSE>>
        ELSE IF token[1] \in Upper THEN <<"67E8F9", FALSE>>
        ELSE <<"E2E8F0", FALSE>>

\* C11: every identifier run of highlight_code_line has the style of the
\* first rule that applies: reserved word (bold, also before "("), literal
\* (bold), call when the next run that is not whitespace is "(", type name
\* when the first character is upper case, default otherwise.  The runs
\* before a comment are the tokens, so the look-ahead over the runs is the
\* look-ahead over the tokens; an identifier that ends the list, or that only
\* whitespace follows, is read without looking past the end.
C11_IdentifierStylePriority ==
    hpc = "done" =>
        \A i \in 1..Len(runs) :
            IDENTIFIER_TOKEN_RE(runs[i].text) =>
                /\ <<runs[i].color, runs[i].bold>> = PriorityStyle(i)
                /\ ~runs[i].italic

\* An identifier styled as a call across a whitespace run
C11_Witness ==
    /\ hpc = "done"
    /\ Len(runs) = 3
    /\ runs[1].text = <<"f">> /\ runs[1].color = "C4B5FD"
    /\ IsSpaceStr(runs[2].text)
    /\ runs[3].text = <<"(">>

\* --------------------------------------------- format_body_line (lines 433-439)

\* The bullet glyph U+2022, one character of the result
BulletGlyph == "U+2022"

RECURSIVE StripStart(_, _)
StripStart(s, i) ==
    IF i <= Len(s) /\ IsSpace(s[i]) THEN StripStart(s, i + 1) ELSE i

RECURSIVE StripEnd(_, _)
StripEnd(s, j) ==
    IF j >= 1 /\ IsSpace(s[j]) THEN StripEnd(s, j - 1) ELSE j

\* s.strip()
Strip(s) == SubSeq(s, StripStart(s, 1), StripEnd(s, Len(s)))

\* The tuple of line 437
BodyMarkers ==
    {<<"-">>, <<"1", ".">>, <<"2", ".">>, <<"3", ".">>, <<"4", ".">>,
     <<"5", ".">>, <<"6", ".">>, <<"7", ".">>, <<"8", ".">>, <<"9", ".">>,
     <<"1", "0", ".">>}

format_body_line_unstripped(l) ==
    LET stripped == Strip(l)
    IN  IF stripped = <<>> THEN <<>>
        ELSE IF \E m \in BodyMarkers : StartsWith(stripped, m) THEN l
        ELSE <<BulletGlyph, " ">> \o stripped

format_body_line(l) ==
    LET stripped == Strip(l)
    IN  IF stripped = <<>> THEN <<>>
        ELSE IF \E m \in BodyMarkers : StartsWith(stripped, m) THEN stripped
        ELSE <<BulletGlyph, " ">> \o stripped

\* The characters the body lines are drawn from
BodyAlphabet == {"-", "1", "0", ".", "a", " ", "\t", BulletGlyph}

InitFormat ==
    /\ body_line \in SeqsUpTo(BodyAlphabet, MaxLen)
    /\ formatted = <<>>
    /\ fpc = "input"
    /\ PptxIdle
    /\ HighlightIdle
    /\ TableIdle
    /\ CanvasIdle
    /\ RerunIdle
    /\ LineIdle
    /\ ParagraphsIdle
    /\ GeometryIdle

\* Lines 433-439
Format ==
    /\ fpc = "input"
    /\ formatted' = format_body_line(body_line)
    /\ fpc' = "done"
    /\ UNCHANGED body_line
    /\ UNCHANGED <<pptxVars, hlVars, tblVars, canvasVars, rerunVars, lineVars, paraVars, geoVars>>

\* format_body_line applied to what it returned
Reformat ==
    /\ fpc = "done"
    /\ body_line' = formatted
    /\ formatted' = format_body_line(formatted)
    /\ fpc' = "again"
    /\ UNCHANGED <<pptxVars, hlVars, tblVars, canvasVars, rerunVars, lineVars, paraVars, geoVars>>

NextFormat == Format \/ Reformat

SpecFormat == InitFormat /\ [][NextFormat]_vars

\* s without its leading and trailing whitespace: the one t with
\* s = (whitespace) t (whitespace) that neither starts nor ends with whitespace
IsTrimmed(t, s) ==
    /\ t = <<>> \/ (~IsSpace(t[1]) /\ ~IsSpace(t[Len(t)]))
    /\ \E i \in 0..Len(s) :
        /\ i + Len(t) <= Len(s)
        /\ SubSeq(s, i + 1, i + Len(t)) = t
        /\ \A k \in (1..i) \cup ((i + Len(t) + 1)..Len(s)) : IsSpace(s[k])

\* The decimal digits of n, for n in 1..10
Ordinal(n) == IF n = 10 THEN <<"1", "0">> ELSE <<<<"1","2","3","4","5","6","7","8","9">>[n]>>

\* t starts with "-" or with an ordinal marker "1." to "10."
HasMarker(t) ==
    \/ t # <<>> /\ t[1] = "-"
    \/ \E n \in 1..10 : StartsWith(t, Ordinal(n) \o <<".">>)

HasBulletPrefix(t) == t # <<>> /\ t[1] = BulletGlyph

\* C12: format_body_line returns "" for an empty or whitespace-only line, the
\* trimmed line with no bullet glyph before it when that starts with "-" or
\* an ordinal marker "1." to "10.", and the bullet glyph, a space and the
\* trimmed line otherwise; applied to its own result for a marker line it
\* returns that result unchanged.
C12_FormatBodyLine ==
    fpc = "done" =>
        \E t \in {SubSeq(body_line, i, j) :
                    i \in 1..(Len(body_line) + 1), j \in 0..Len(body_line)} :
            /\ IsTrimmed(t, body_line)
            /\ t = <<>> => formatted = <<>>
            /\ HasMarker(t) =>
                /\ formatted = t
                /\ ~HasBulletPrefix(formatted)
                /\ format_body_line(formatted) = formatted
            /\ (t # <<>> /\ ~HasMarker(t)) =>
                formatted = <<BulletGlyph, " ">> \o t

\* A marker line with whitespace around it, returned trimmed
C12_Witness ==
    /\ fpc = "done"
    /\ body_line = <<" ", "1", ".", " ">>
    /\ formatted = <<"1", ".">>

\* C30: format_body_line is idempotent: applied to its own result it returns
\* that result, so a line that has the bullet glyph gets no second one.
C30_FormatIsIdempotent == fpc = "again" => formatted = body_line

\* ------------------------------------------------ table_xml, the steps

MaxTableCols == 3

MaxTableRows == 2

\* The text of the cell at column c of data row r; row 0 is the header row
CellText(r, c) == <<"cell", r, c>>

\* No widths, one width a header column, or one width too many
ColWidthsFor(h) ==
    {<<>>, [k \in 1..h |-> 914400], [k \in 1..(h + 1) |-> 914400]}

\* Tables of 0..MaxTableCols header columns and up to MaxTableRows rows, each
\* row of 0..MaxTableCols + 1 cells
TablesToRender ==
    {TableData([c \in 1..h |-> CellText(0, c)],
               [r \in 1..Len(lens) |-> [c \in 1..lens[r] |-> CellText(r, c)]],
               w) :
        h \in 0..MaxTableCols,
        lens \in SeqsUpTo(0..(MaxTableCols + 1), MaxTableRows),
        w \in UNION {ColWidthsFor(k) : k \in 0..MaxTableCols}}

\* Frame widths: none, one that 2 divides and 3 does not, one that neither
\* divides, and the width slide_xml passes (line 622)
FrameWidths == {0, 10, 11, 11277600}

InitTable ==
    /\ table_data \in TablesToRender
    /\ table_cx \in FrameWidths
    /\ table_markup = NoMarkup
    /\ tpc = "input"
    /\ PptxIdle
    /\ HighlightIdle
    /\ FormatIdle
    /\ CanvasIdle
    /\ RerunIdle
    /\ LineIdle
    /\ ParagraphsIdle
    /\ GeometryIdle

\* Lines 328-388, called with the shape id and the frame height slide_xml
\* passes (lines 617-628)
RenderTable ==
    /\ tpc = "input"
    /\ ~table_xml(5, table_cx, 3901440, table_data).raised
    /\ table_markup' = table_xml(5, table_cx, 3901440, table_data).markup
    /\ tpc' = "done"
    /\ UNCHANGED <<table_data, table_cx>>
    /\ UNCHANGED <<pptxVars, hlVars, fmtVars, canvasVars, rerunVars, lineVars, paraVars, geoVars>>

\* Lines 329-331
RenderTableRaises ==
    /\ tpc = "input"
    /\ table_xml(5, table_cx, 3901440, table_data).raised
    /\ tpc' = "raised"
    /\ UNCHANGED <<table_data, table_cx, table_markup>>
    /\ UNCHANGED <<pptxVars, hlVars, fmtVars, canvasVars, rerunVars, lineVars, paraVars, geoVars>>

NextTable == RenderTable \/ RenderTableRaises

SpecTable == InitTable /\ [][NextTable]_vars

\* C13: a rendered table has len(rows) + 1 rows of exactly h cells each, h
\* the number of header columns (h >= 1): the header row holds the headers,
\* and data row r holds the first min(len(row), h) cells of the row in
\* order, then empty cells; the row's cells beyond h are dropped.
C13_RowsPaddedToHeaders ==
    tpc = "done" =>
        LET h == Len(table_data.headers)
            rendered == table_markup.rows
        IN  /\ Len(rendered) = Len(table_data.rows) + 1
            /\ Len(rendered[1]) = h
            /\ \A c \in 1..h : rendered[1][c].text = table_data.headers[c]
            /\ \A r \in 1..Len(table_data.rows) :
                /\ Len(rendered[r + 1]) = h
                /\ \A c \in 1..h :
                    rendered[r + 1][c].text =
                        IF c <= Len(table_data.rows[r])
                        THEN table_data.rows[r][c] ELSE ""

\* Three header columns, a row of two cells padded and a row of four cut
C13_Witness ==
    /\ tpc = "done"
    /\ Len(table_data.headers) = 3
    /\ Len(table_data.rows) = 2
    /\ Len(table_data.rows[1]) = 2
    /\ Len(table_data.rows[2]) = 4
    /\ Len(table_markup.rows[2]) = 3 /\ table_markup.rows[2][3].text = ""
    /\ Len(table_markup.rows[3]) = 3

RECURSIVE SumSeq(_)
SumSeq(q) == IF q = <<>> THEN 0 ELSE Head(q) + SumSeq(Tail(q))

\* C24: a table of h >= 1 header columns rendered in a frame of width
\* cx >= 0 has the supplied widths, unchanged, when there are exactly h of
\* them; otherwise (none supplied, or not h of them) it has h columns of
\* cx div h each, the last one wider by the remainder cx - h * (cx div h),
\* which sum to cx.
C24_ColumnWidths ==
    tpc = "done" =>
        LET h == Len(table_data.headers)
            per == table_cx \div h
            gridCols == table_markup.gridCols
        IN  IF Len(table_data.col_widths) = h
            THEN gridCols = table_data.col_widths
            ELSE /\ Len(gridCols) = h
                 /\ \A k \in 1..(h - 1) : gridCols[k] = per
                 /\ gridCols[h] = per + (table_cx - (h * per))
                 /\ SumSeq(gridCols) = table_cx

\* Four widths supplied for three columns: the frame's 11 split as 3, 3, 5
C24_Witness ==
    /\ tpc = "done"
    /\ table_cx = 11
    /\ Len(table_data.col_widths) = 4
    /\ table_markup.gridCols = <<3, 3, 5>>

\* C14: composing a slide raises the ValueError exactly when the slide has a
\* table with no header column, whatever the table's rows and column widths
\* and the slide's other fields; a raising composition yields no table
\* markup, and a table with a header column never raises.
C14_ZeroHeadersRaise ==
    pc \in {"composed", "raised"} =>
        /\ pc = "raised" <=> (has_table(slide) /\ Len(slide.table.headers) = 0)
        /\ pc = "raised" => \A k \in 1..Len(shapes) : shapes[k].name # "Data Table"

\* A raising slide whose table has a row and a column width, with code, a
\* footer and index entries beside it
C14_Witness ==
    /\ pc = "raised"
    /\ has_table(slide)
    /\ slide.table.rows # <<>> /\ slide.table.col_widths # <<>>
    /\ slide.code # None /\ Truthy(slide.footer) /\ slide.index_entries # <<>>

\* C15: when composing a slide raises, no part has been written to the
\* archive at the output path.
C15_NoPartialArchive == pc = "raised" => archive = {}

\* ------------------------------------------- RasterCanvas (lines 1138-1231)

\* int(c, 16) for one hexadecimal digit
HexDigit(c) ==
    CASE c = "0" -> 0 [] c = "1" -> 1 [] c = "2" -> 2 [] c = "3" -> 3
      [] c = "4" -> 4 [] c = "5" -> 5 [] c = "6" -> 6 [] c = "7" -> 7
      [] c = "8" -> 8 [] c = "9" -> 9 [] c = "A" -> 10 [] c = "B" -> 11
      [] c = "C" -> 12 [] c = "D" -> 13 [] c = "E" -> 14 [] c = "F" -> 15

\* Lines 1138-1139; a colour is its six hexadecimal digits
hex_to_rgb(color) ==
    <<16 * HexDigit(color[1]) + HexDigit(color[2]),
      16 * HexDigit(color[3]) + HexDigit(color[4]),
      16 * HexDigit(color[5]) + HexDigit(color[6])>>

\* bytes((r, g, b)) * n
RgbBytes(rgb, n) == [i \in 1..(3 * n) |-> rgb[((i - 1) % 3) + 1]]

\* Lines 1143-1148.  Row y of the code is rows[y + 1] here, byte idx of a
\* row is row[idx + 1].  raised tells that a call on the canvas has ended
\* in an exception.
RasterCanvas(width, height, background) ==
    [width |-> width, height |-> height,
     rows |-> [y \in 1..height |-> RgbBytes(hex_to_rgb(background), width)],
     raised |-> FALSE]

InCanvasUpperOnly(c, x, y) == x < c.width /\ y < c.height

\* Line 1151
InCanvas(c, x, y) == 0 <= x /\ x < c.width /\ 0 <= y /\ y < c.height

\* The item a Python sequence of n items reads or writes at index k: a
\* negative index counts from the end
PyIndex(k, n) == IF k < 0 THEN k + n ELSE k

\* Index k of a sequence of n items raises IndexError
IndexError(k, n) == k < -n \/ k >= n

\* set_pixel(x, y, color) for every point <<x, y>> of P, in any order: each
\* point that passes the test of line 1151 has its three bytes written
\* (lines 1152-1156), which raises IndexError for an index out of range
SetPixels(c, P, color) ==
    LET rgb == hex_to_rgb(color)
        passed == {q \in P : InCanvas(c, q[1], q[2])}
        written == {<<PyIndex(p[2], c.height), PyIndex(p[1] * 3, 3 * c.width)>> :
                        p \in passed}
    IN  [c EXCEPT
         !.raised = @ \/ \E p \in passed :
                            \/ IndexError(p[2], c.height)
                            \/ IndexError(p[1] * 3, 3 * c.width)
                            \/ IndexError((p[1] * 3) + 2, 3 * c.width),
         !.rows =
            [y \in 1..c.height |->
                [i \in 1..(3 * c.width) |->
                    IF <<y - 1, i - 1>> \in written THEN rgb[1]
                    ELSE IF <<y - 1, i - 2>> \in written THEN rgb[2]
                    ELSE IF <<y - 1, i - 3>> \in written THEN rgb[3]
                    ELSE c.rows[y][i]]]]

\* Lines 1150-1156
set_pixel(c, x, y, color) == SetPixels(c, {<<x, y>>}, color)

\* int(t + (b - t) * (y / den)) for bytes t, b and 0 <= y <= den
GradientByte(t, b, y, den) == ((t * den) + ((b - t) * y)) \div den

\* Lines 1158-1167
fill_vertical_gradient(c, top, bottom) ==
    LET t == hex_to_rgb(top)
        b == hex_to_rgb(bottom)
        height_denominator == Max(1, c.height - 1)
        rgb(y) == [k \in 1..3 |-> GradientByte(t[k], b[k], y, height_denominator)]
    IN  [c EXCEPT
         !.raised = @ \/ \E y \in 0..(c.height - 1), k \in 1..3 :
                            rgb(y)[k] \notin 0..255,
         !.rows = [y \in 1..c.height |-> RgbBytes(rgb(y - 1), c.width)]]

\* row[a:b] = bytes, for 0 <= a <= b <= len(row)
SliceAssign(row, a, b, bytes) ==
    SubSeq(row, 1, a) \o bytes \o SubSeq(row, b + 1, Len(row))

\* Lines 1169-1181
fill_rect(c, x, y, width, height, color) ==
    IF width <= 0 \/ height <= 0 THEN c
    ELSE LET x0 == Max(0, x)
             y0 == Max(0, y)
             x1 == Min(c.width, x + width)
             y1 == Min(c.height, y + height)
         IN  IF x0 >= x1 \/ y0 >= y1 THEN c
             ELSE [c EXCEPT !.rows =
                    [yy \in 1..c.height |->
                        IF y0 <= yy - 1 /\ yy - 1 < y1
                        THEN SliceAssign(c.rows[yy], x0 * 3, x1 * 3,
                                         RgbBytes(hex_to_rgb(color), x1 - x0))
                        ELSE c.rows[yy]]]

\* Lines 1183-1187
draw_rect(c, x, y, width, height, color, thickness) ==
    LET c1 == fill_rect(c, x, y, width, thickness, color)
        c2 == fill_rect(c1, x, y + height - thickness, width, thickness, color)
        c3 == fill_rect(c2, x, y, thickness, height, color)
    IN  fill_rect(c3, x + width - thickness, y, thickness, height, color)

\* The points fill_circle passes to set_pixel (lines 1190-1196)
CirclePoints(cx, cy, radius) ==
    {p \in ((cx - radius)..(cx + radius)) \X ((cy - radius)..(cy + radius)) :
        ((p[1] - cx) * (p[1] - cx)) + ((p[2] - cy) * (p[2] - cy)) <= radius * radius}

\* Lines 1189-1196
fill_circle(c, cx, cy, radius, color) ==
    SetPixels(c, CirclePoints(cx, cy, radius), color)

\* Lines 1198-1206
fill_rounded_rect(c, x, y, width, height, radius, color) ==
    LET r == Max(0, Min(radius, Min(width \div 2, height \div 2)))
        c1 == fill_rect(c, x + r, y, width - (2 * r), height, color)
        c2 == fill_rect(c1, x, y + r, r, height - (2 * r), color)
        c3 == fill_rect(c2, x + width - r, y + r, r, height - (2 * r), color)
    IN  SetPixels(c3,
                  CirclePoints(x + r, y + r, r)
                  \cup CirclePoints(x + width - r - 1, y + r, r)
                  \cup CirclePoints(x + r, y + height - r - 1, r)
                  \cup CirclePoints(x + width - r - 1, y + height - r - 1, r),
                  color)

\* The loop of lines 1214-1224 from the point <<x1, y1>> on: the points it
\* passes to set_pixel
RECURSIVE LineLoop(_, _, _, _, _, _, _, _, _)
LineLoop(x1, y1, x2, y2, dx, sx, dy, sy, err) ==
    IF x1 = x2 /\ y1 = y2 THEN {<<x1, y1>>}
    ELSE LET e2 == 2 * err
             stepx == e2 >= dy
             err1 == IF stepx THEN err + dy ELSE err
             stepy == e2 <= dx
         IN  {<<x1, y1>>}
             \cup LineLoop(IF stepx THEN x1 + sx ELSE x1,
                           IF stepy THEN y1 + sy ELSE y1,
                           x2, y2, dx, sx, dy, sy,
                           IF stepy THEN err1 + dx ELSE err1)

Abs(n) == IF n < 0 THEN -n ELSE n

\* Lines 1208-1224: the points _draw_line_single passes to set_pixel
LinePoints(x1, y1, x2, y2) ==
    LET dx == Abs(x2 - x1)
        dy == -Abs(y2 - y1)
    IN  LineLoop(x1, y1, x2, y2, dx, IF x1 < x2 THEN 1 ELSE -1,
                 dy, IF y1 < y2 THEN 1 ELSE -1, dx + dy)

\* Lines 1226-1231
draw_line(c, x1, y1, x2, y2, color, thickness) ==
    LET radius == Max(0, thickness \div 2)
    IN  SetPixels(c,
                  UNION {LinePoints(x1 + o[1], y1 + o[2], x2 + o[1], y2 + o[2]) :
                            o \in {q \in (-radius..radius) \X (-radius..radius) :
                                      (q[1] * q[1]) + (q[2] * q[2]) <= radius * radius}},
                  color)

\* The largest q with q * sqrt(n) <= a, for a >= 0 and n >= 1
FloorOverRoot(a, n) ==
    CHOOSE q \in 0..a : q * q * n <= a * a /\ a * a < (q + 1) * (q + 1) * n

\* int(v - a / sqrt(n)) for integers v, a and n >= 1; int() rounds towards 0
TruncMinusOverRoot(v, a, n) ==
    LET f == FloorOverRoot(Abs(a), n)
        exact == f * f * n = a * a
        floor == IF a >= 0 THEN f ELSE IF exact THEN -f ELSE -(f + 1)
        ceil == IF exact THEN floor ELSE floor + 1
    IN  IF v >= ceil THEN v - ceil ELSE v - floor

\* Lines 1250-1268, with wing = 8 and tail = 14
draw_arrow(c, x1, y1, x2, y2, color) ==
    LET c1 == draw_line(c, x1, y1, x2, y2, color, 5)
        dx == x2 - x1
        dy == y2 - y1
        n == (dx * dx) + (dy * dy)
        lx == TruncMinusOverRoot(x2, (14 * dx) + (8 * dy), n)
        ly == TruncMinusOverRoot(y2, (14 * dy) - (8 * dx), n)
        rx == TruncMinusOverRoot(x2, (14 * dx) - (8 * dy), n)
        ry == TruncMinusOverRoot(y2, (14 * dy) + (8 * dx), n)
    IN  IF n = 0 THEN c1
        ELSE draw_line(draw_line(c1, x2, y2, lx, ly, color, 4),
                       x2, y2, rx, ry, color, 4)

\* ------------------------------------ to_png_bytes, png_chunk (lines 1233-1247)

\* The exclusive or of two numbers below 2^16
RECURSIVE Xor16(_, _)
Xor16(a, b) ==
    IF a = 0 THEN b
    ELSE IF b = 0 THEN a
    ELSE ((a + b) % 2) + (2 * Xor16(a \div 2, b \div 2))

\* One of the eight shifts of CRC-32 (polynomial EDB88320) on the register
\* <<high 16 bits, low 16 bits>>
CrcShift(reg) ==
    LET hi == reg[1] \div 2
        lo == (reg[2] \div 2) + ((reg[1] % 2) * 32768)
    IN  IF reg[2] % 2 = 1 THEN <<Xor16(hi, 60856), Xor16(lo, 33568)>>
        ELSE <<hi, lo>>

\* The register after the byte b: b is added to the low bits, then eight shifts
CrcByte(reg, b) ==
    CrcShift(CrcShift(CrcShift(CrcShift(CrcShift(CrcShift(CrcShift(CrcShift(
        <<reg[1], Xor16(reg[2], b)>>))))))))

\* The register after the first n bytes
RECURSIVE CrcUpdate(_, _)
CrcUpdate(bytes, n) ==
    IF n = 0 THEN <<65535, 65535>>
    ELSE LET reg == CrcUpdate(bytes, n - 1)
         IN  IF reg[1] >= 0 THEN CrcByte(reg, bytes[n]) ELSE reg

\* struct.pack(">I", zlib.crc32(bytes) & 0xFFFFFFFF): the four bytes of the
\* CRC-32 of bytes, most significant first
Crc32Bytes(bytes) ==
    LET reg == CrcUpdate(bytes, Len(bytes))
        hi == 65535 - reg[1]
        lo == 65535 - reg[2]
    IN  <<hi \div 256, hi % 256, lo \div 256, lo % 256>>

\* struct.pack(">I", n) for 0 <= n < 2^31
PackU32(n) == <<(n \div 16777216) % 256, (n \div 65536) % 256, (n \div 256) % 256, n % 256>>

RECURSIVE AdlerSums(_, _, _, _)
AdlerSums(bytes, i, a, b) ==
    IF i > Len(bytes) THEN <<a, b>>
    ELSE AdlerSums(bytes, i + 1, (a + bytes[i]) % 65521,
                   (b + ((a + bytes[i]) % 65521)) % 65521)

\* The Adler-32 of bytes, most significant byte first
Adler32Bytes(bytes) ==
    LET ab == AdlerSums(bytes, 1, 1, 0)
    IN  <<ab[2] \div 256, ab[2] % 256, ab[1] \div 256, ab[1] % 256>>

\* zlib.compress(raw, level=9), as one zlib stream that inflates to raw: the
\* two header bytes, raw in one stored deflate block (final, with its length
\* and the complement of its length, low byte first) and the Adler-32 of
\* raw.  The library chooses among the streams that inflate to raw; no
\* reader tells them apart.
zlib_compress(raw) ==
    <<120, 1, 1, Len(raw) % 256, Len(raw) \div 256,
      255 - (Len(raw) % 256), 255 - (Len(raw) \div 256)>>
    \o raw \o Adler32Bytes(raw)

png_chunk_crc_over_all(chunk_type, data) ==
    PackU32(Len(data)) \o chunk_type \o data
    \o Crc32Bytes(PackU32(Len(data)) \o chunk_type \o data)

\* Lines 1245-1247
png_chunk(chunk_type, data) ==
    PackU32(Len(data)) \o chunk_type \o data \o Crc32Bytes(chunk_type \o data)

\* b"\x89PNG\r\n\x1a\n"
PngSignature == <<137, 80, 78, 71, 13, 10, 26, 10>>

IHDR == <<73, 72, 68, 82>>

IDAT == <<73, 68, 65, 84>>

IEND == <<73, 69, 78, 68>>

RECURSIVE JoinRowsUnfiltered(_, _)
JoinRowsUnfiltered(rows, y) ==
    IF y > Len(rows) THEN <<>> ELSE rows[y] \o JoinRowsUnfiltered(rows, y + 1)

\* b"".join(b"\\x00" + bytes(row) for row in self.rows), from row y on
RECURSIVE JoinRows(_, _)
JoinRows(rows, y) ==
    IF y > Len(rows) THEN <<>> ELSE <<0>> \o rows[y] \o JoinRows(rows, y + 1)

\* Lines 1233-1242
to_png_bytes(c) ==
    LET raw == JoinRows(c.rows, 1)
        compressed == zlib_compress(raw)
        ihdr == PackU32(c.width) \o PackU32(c.height) \o <<8, 2, 0, 0, 0>>
    IN  PngSignature \o png_chunk(IHDR, ihdr) \o png_chunk(IDAT, compressed)
        \o png_chunk(IEND, <<>>)

\* ------------------------------------------------ RasterCanvas, the steps

\* A coordinate beyond every canvas of CanvasSizes
Far == 4

\* <<width, height>> of the canvases
CanvasSizes == {<<1, 1>>, <<3, 1>>, <<1, 3>>, <<2, 2>>}

Background == <<"E", "F", "F", "6", "F", "F">>

Ink == <<"2", "5", "6", "3", "E", "B">>

\* Positions: left of or above the canvas, inside it, beyond it
Coords == {-1, 0, 1, Far}

\* Widths and heights: negative, zero, one pixel, wider than the canvas
Extents == {-1, 0, 1, Far}

Radii == {-1, 0, 1, 2}

\* Negative, one pixel, two pixels: thickness // 2 is -1, 0 and 1
Thicknesses == {-1, 1, 2}

\* The end points of the arrows
ArrowCoords == {-1, 1, Far}

Call(method, args) == [method |-> method, args |-> args]

InitCanvas ==
    /\ \E size \in CanvasSizes : canvas = RasterCanvas(size[1], size[2], Background)
    /\ call = <<>>
    /\ before = <<>>
    /\ png = <<>>
    /\ cpc = "ready"
    /\ PptxIdle
    /\ HighlightIdle
    /\ FormatIdle
    /\ TableIdle
    /\ RerunIdle
    /\ LineIdle
    /\ ParagraphsIdle
    /\ GeometryIdle

\* What every call on the canvas does to the variables, given the canvas it
\* leaves
Called(method, args, c) ==
    /\ cpc = "ready"
    /\ canvas' = c
    /\ call' = Call(method, args)
    /\ before' = canvas.rows
    /\ cpc' = "returned"
    /\ UNCHANGED png
    /\ UNCHANGED <<pptxVars, hlVars, fmtVars, tblVars, rerunVars, lineVars, paraVars, geoVars>>

SetPixel ==
    \E x \in Coords, y \in Coords :
        Called("set_pixel", <<x, y>>, set_pixel(canvas, x, y, Ink))

FillVerticalGradient ==
    \E top \in {Background, Ink}, bottom \in {Background, Ink} :
        Called("fill_vertical_gradient", <<top, bottom>>,
               fill_vertical_gradient(canvas, top, bottom))

FillRect ==
    \E x \in Coords, y \in Coords, w \in Extents, h \in Extents :
        Called("fill_rect", <<x, y, w, h>>, fill_rect(canvas, x, y, w, h, Ink))

DrawRect ==
    \E x \in Coords, y \in Coords, w \in Extents, h \in Extents, t \in Thicknesses :
        Called("draw_rect", <<x, y, w, h, t>>, draw_rect(canvas, x, y, w, h, Ink, t))

FillCircle ==
    \E x \in Coords, y \in Coords, r \in Radii :
        Called("fill_circle", <<x, y, r>>, fill_circle(canvas, x, y, r, Ink))

FillRoundedRect ==
    \E x \in Coords, y \in Coords, w \in Extents, h \in Extents, r \in Radii :
        Called("fill_rounded_rect", <<x, y, w, h, r>>,
               fill_rounded_rect(canvas, x, y, w, h, r, Ink))

DrawLine ==
    \E x1 \in Coords, y1 \in Coords, x2 \in Coords, y2 \in Coords, t \in Thicknesses :
        Called("draw_line", <<x1, y1, x2, y2, t>>,
               draw_line(canvas, x1, y1, x2, y2, Ink, t))

DrawArrow ==
    \E x1 \in ArrowCoords, y1 \in ArrowCoords,
       x2 \in ArrowCoords, y2 \in ArrowCoords :
        Called("draw_arrow", <<x1, y1, x2, y2>>,
               draw_arrow(canvas, x1, y1, x2, y2, Ink))

\* Lines 1233-1242
ToPngBytes ==
    /\ cpc = "ready"
    /\ png' = to_png_bytes(canvas)
    /\ call' = Call("to_png_bytes", <<>>)
    /\ before' = canvas.rows
    /\ cpc' = "returned"
    /\ UNCHANGED canvas
    /\ UNCHANGED <<pptxVars, hlVars, fmtVars, tblVars, rerunVars, lineVars, paraVars, geoVars>>

\* The caller goes on: what it held of the last call is dropped
Return ==
    /\ cpc = "returned"
    /\ call' = <<>>
    /\ before' = <<>>
    /\ png' = <<>>
    /\ cpc' = "ready"
    /\ UNCHANGED canvas
    /\ UNCHANGED <<pptxVars, hlVars, fmtVars, tblVars, rerunVars, lineVars, paraVars, geoVars>>

NextCanvas ==
    \/ SetPixel
    \/ FillVerticalGradient
    \/ FillRect
    \/ DrawRect
    \/ FillCircle
    \/ FillRoundedRect
    \/ DrawLine
    \/ DrawArrow
    \/ ToPngBytes
    \/ Return

SpecCanvas == InitCanvas /\ [][NextCanvas]_vars

\* The number whose big-endian bytes are b[off], ..., b[off + 3]
U32At(b, off) ==
    (b[off] * 16777216) + (b[off + 1] * 65536) + (b[off + 2] * 256) + b[off + 3]

\* The chunk a reader finds at offset off of the stream b
ChunkAt(b, off) ==
    LET length == U32At(b, off)
    IN  [length |-> SubSeq(b, off, off + 3),
         type |-> SubSeq(b, off + 4, off + 7),
         data |-> SubSeq(b, off + 8, off + 7 + length),
         crc |-> SubSeq(b, off + 8 + length, off + 11 + length),
         next |-> off + 12 + length]

\* The chunk's CRC is that of its type and data, and not that of its length,
\* type and data
CrcOverTypeAndData(ch) ==
    /\ ch.crc = Crc32Bytes(ch.type \o ch.data)
    /\ ch.crc # Crc32Bytes(ch.length \o ch.type \o ch.data)

\* C16: to_png_bytes returns the PNG signature and then exactly the chunks
\* IHDR, IDAT, IEND, each a 4-byte big-endian length that counts its data
\* bytes, the 4-byte type, the data and the 4-byte big-endian CRC of type
\* and data (not of the length); IHDR's 13 data bytes are the width, the
\* height, bit depth 8, colour type 2, compression 0, filter 0, interlace 0;
\* IEND has no data.
C16_PngChunkLayout ==
    (cpc = "returned" /\ call.method = "to_png_bytes") =>
        LET ihdr == ChunkAt(png, 9)
            idat == ChunkAt(png, ihdr.next)
            iend == ChunkAt(png, idat.next)
        IN  /\ SubSeq(png, 1, 8) = <<137, 80, 78, 71, 13, 10, 26, 10>>
            /\ ihdr.type = <<73, 72, 68, 82>>
            /\ Len(ihdr.data) = 13
            /\ U32At(ihdr.data, 1) = canvas.width
            /\ U32At(ihdr.data, 5) = canvas.height
            /\ SubSeq(ihdr.data, 9, 13) = <<8, 2, 0, 0, 0>>
            /\ CrcOverTypeAndData(ihdr)
            /\ idat.type = <<73, 68, 65, 84>>
            /\ CrcOverTypeAndData(idat)
            /\ iend.type = <<73, 69, 78, 68>>
            /\ iend.data = <<>>
            /\ CrcOverTypeAndData(iend)
            /\ iend.next = Len(png) + 1

\* The stream of a canvas three pixels wide that has been drawn on
C16_Witness ==
    /\ cpc = "returned" /\ call.method = "to_png_bytes"
    /\ canvas.width = 3
    /\ canvas.rows # RasterCanvas(3, 1, Background).rows
    /\ Len(png) > 8

\* What a reader returns for a stream it rejects
Invalid == [valid |-> FALSE]

\* What a zlib reader makes of the stream z: the data of its one stored
\* block when header, block length and Adler-32 are right
Inflate(z) ==
    IF /\ Len(z) >= 11
       /\ z[1] = 120 /\ ((z[1] * 256) + z[2]) % 31 = 0
       /\ z[3] = 1
       /\ z[6] = 255 - z[4] /\ z[7] = 255 - z[5]
       /\ Len(z) = 11 + z[4] + (256 * z[5])
       /\ SubSeq(z, Len(z) - 3, Len(z)) = Adler32Bytes(SubSeq(z, 8, Len(z) - 4))
    THEN [valid |-> TRUE, data |-> SubSeq(z, 8, Len(z) - 4)]
    ELSE Invalid

\* What a PNG reader makes of the stream b: width, height and the rows of
\* RGB bytes, when the stream is signature, IHDR (8-bit RGB, not interlaced),
\* IDAT, IEND with right CRCs and the inflated data is height scanlines of
\* filter type 0
PngDecode(b) ==
    LET ihdr == ChunkAt(b, 9)
        idat == ChunkAt(b, ihdr.next)
        iend == ChunkAt(b, idat.next)
        width == U32At(ihdr.data, 1)
        height == U32At(ihdr.data, 5)
        inflated == Inflate(idat.data)
        raw == inflated.data
        stride == 1 + (3 * width)
    IN  IF /\ SubSeq(b, 1, 8) = <<137, 80, 78, 71, 13, 10, 26, 10>>
           /\ ihdr.type = <<73, 72, 68, 82>> /\ Len(ihdr.data) = 13
           /\ SubSeq(ihdr.data, 9, 13) = <<8, 2, 0, 0, 0>>
           /\ width > 0 /\ height > 0
           /\ idat.type = <<73, 68, 65, 84>>
           /\ iend.type = <<73, 69, 78, 68>> /\ iend.next = Len(b) + 1
           /\ \A ch \in {ihdr, idat, iend} : ch.crc = Crc32Bytes(ch.type \o ch.data)
           /\ inflated.valid
           /\ Len(raw) = height * stride
           /\ \A y \in 1..height : raw[((y - 1) * stride) + 1] = 0
        THEN [valid |-> TRUE, width |-> width, height |-> height,
              rows |-> [y \in 1..height |->
                          SubSeq(raw, ((y - 1) * stride) + 2, y * stride)]]
        ELSE Invalid

\* C17: a PNG reader decodes the stream of to_png_bytes to the canvas it was
\* made from: the same width and height and the same bytes in every row,
\* the inflated data being each row, top to bottom, after a filter byte 0.
C17_PngRoundTrip ==
    (cpc = "returned" /\ call.method = "to_png_bytes") =>
        /\ PngDecode(png).valid
        /\ PngDecode(png).width = canvas.width
        /\ PngDecode(png).height = canvas.height
        /\ PngDecode(png).rows = canvas.rows

\* The stream of a canvas whose three rows differ: a gradient was drawn
C17_Witness ==
    /\ cpc = "returned" /\ call.method = "to_png_bytes"
    /\ canvas.height = 3
    /\ canvas.rows[1] # canvas.rows[2] /\ canvas.rows[2] # canvas.rows[3]
    /\ canvas.rows[1] # canvas.rows[3]
    /\ PngDecode(png).valid

\* The call made last was method with a point outside the canvas
OutsideCall(method) ==
    /\ cpc = "returned" /\ call.method = method
    /\ \/ call.args[1] < 0 \/ call.args[1] >= canvas.width
       \/ call.args[2] < 0 \/ call.args[2] >= canvas.height

\* C18: whatever drawing calls were made, with coordinates and sizes that
\* are negative, zero or beyond the canvas, none raised, and the canvas has
\* height rows of 3 * width bytes, each in 0..255; a set_pixel outside the
\* canvas changed no byte.
C18_DrawingClipsSilently ==
    cpc \in {"ready", "returned"} =>
        /\ ~canvas.raised
        /\ Len(canvas.rows) = canvas.height
        /\ \A y \in 1..canvas.height :
            /\ Len(canvas.rows[y]) = 3 * canvas.width
            /\ \A i \in 1..(3 * canvas.width) : canvas.rows[y][i] \in 0..255
        /\ OutsideCall("set_pixel") => canvas.rows = before

\* A set_pixel left of a canvas that has been drawn on
C18_Witness ==
    /\ OutsideCall("set_pixel")
    /\ call.args = <<-1, 0>>
    /\ canvas.rows # RasterCanvas(canvas.width, canvas.height, Background).rows

\* The call made last was a fill with a width or height of zero or less
EmptyFill ==
    /\ cpc = "returned"
    /\ call.method \in {"fill_rect", "fill_rounded_rect"}
    /\ call.args[3] <= 0 \/ call.args[4] <= 0

\* C19: fill_rect and fill_rounded_rect called with a width or a height of
\* zero or less leave every pixel as it was.
C19_EmptyFillIsNoOp == EmptyFill => canvas.rows = before

\* The pixel <<px, py>> of the canvas is not as it was before the call
Changed(px, py) ==
    \E k \in 1..3 : canvas.rows[py + 1][(3 * px) + k] # before[py + 1][(3 * px) + k]

\* C28: fill_rounded_rect and draw_rect called with x, y, width, height
\* change only pixels <<px, py>> with x <= px < x + width and
\* y <= py < y + height, whatever the radius or the thickness.
C28_RectanglesStayInBox ==
    (cpc = "returned" /\ call.method \in {"fill_rounded_rect", "draw_rect"}) =>
        \A px \in 0..(canvas.width - 1), py \in 0..(canvas.height - 1) :
            Changed(px, py) =>
                /\ call.args[1] <= px /\ px < call.args[1] + call.args[3]
                /\ call.args[2] <= py /\ py < call.args[2] + call.args[4]

\* ----------------------------------- generate_pptx, run twice (lines 2856-2898)

MaxClock == 3

\* build_image_assets().keys() in the order of the dict (lines 1357-1362)
ImageAssetKeys ==
    <<"cover_overview", "problem_context", "approach_fit", "rollout_timeline">>

\* One entry of the archive.  ZipFile.writestr(name, data) with a name stamps
\* the entry with the local time of the call, in the entry's header and in
\* the central directory; content stands for the bytes of data by naming
\* what they are computed from.
ZipEntry(name, date_time, content) ==
    [name |-> name, date_time |-> date_time, content |-> content]

\* Lines 2865-2882 at time now: the names in the order written, each with
\* what its payload is computed from
FixedEntries(slide_count, now, now_iso) ==
    <<ZipEntry(ContentTypesPart, now, <<slide_count>>),
      ZipEntry(Part("_rels/", 0, <<"rels">>), now, <<>>),
      ZipEntry(Part("docProps/app", 0, <<"xml">>), now, <<slide_count>>),
      ZipEntry(Part("docProps/core", 0, <<"xml">>), now, <<now_iso>>),
      ZipEntry(Part("ppt/presentation", 0, <<"xml">>), now, <<slide_count>>),
      ZipEntry(Part("ppt/_rels/presentation", 0, <<"xml", "rels">>), now, <<slide_count>>),
      ZipEntry(Part("ppt/presProps", 0, <<"xml">>), now, <<>>),
      ZipEntry(Part("ppt/viewProps", 0, <<"xml">>), now, <<>>),
      ZipEntry(Part("ppt/tableStyles", 0, <<"xml">>), now, <<>>),
      ZipEntry(Part("ppt/theme/theme1", 0, <<"xml">>), now, <<>>),
      ZipEntry(Part("ppt/slideMasters/slideMaster1", 0, <<"xml">>), now, <<>>),
      ZipEntry(Part("ppt/slideMasters/_rels/slideMaster1", 0, <<"xml", "rels">>), now, <<>>),
      ZipEntry(Part("ppt/slideLayouts/slideLayout1", 0, <<"xml">>), now, <<>>),
      ZipEntry(Part("ppt/slideLayouts/_rels/slideLayout1", 0, <<"xml", "rels">>), now, <<>>)>>

\* Lines 2884-2885
MediaEntries(now) ==
    [k \in 1..Len(ImageAssetKeys) |->
        ZipEntry(MediaPart(image_names[ImageAssetKeys[k]][2]), now,
                 <<ImageAssetKeys[k]>>)]

\* Lines 2887-2898 for slides that have a title and nothing else
RECURSIVE SlideEntries(_, _, _)
SlideEntries(ts, i, now) ==
    IF i > Len(ts) THEN <<>>
    ELSE <<ZipEntry(SlidePart(i), now, <<ts[i], i, Len(ts)>>),
           ZipEntry(SlideRelsPart(i), now, <<i>>)>>
         \o SlideEntries(ts, i + 1, now)

\* Lines 2856-2898, a run that starts and ends within one step of the clock:
\* now_iso (line 2859) and the time of every writestr are readings of it
generate_pptx(ts, now) ==
    FixedEntries(Len(ts), now, now) \o MediaEntries(now) \o SlideEntries(ts, 1, now)

InitRerun ==
    /\ deck \in SeqsUpTo(Titles, MaxSlides)
    /\ clock = 0
    /\ first_run = <<>>
    /\ second_run = <<>>
    /\ rpc = "start"
    /\ PptxIdle
    /\ HighlightIdle
    /\ FormatIdle
    /\ TableIdle
    /\ CanvasIdle
    /\ LineIdle
    /\ ParagraphsIdle
    /\ GeometryIdle

\* Time passes
Tick ==
    /\ rpc \in {"start", "once"}
    /\ clock < MaxClock
    /\ clock' = clock + 1
    /\ UNCHANGED <<deck, first_run, second_run, rpc>>
    /\ UNCHANGED <<pptxVars, hlVars, fmtVars, tblVars, canvasVars, lineVars, paraVars, geoVars>>

FirstRun ==
    /\ rpc = "start"
    /\ first_run' = generate_pptx(deck, clock)
    /\ rpc' = "once"
    /\ UNCHANGED <<deck, clock, second_run>>
    /\ UNCHANGED <<pptxVars, hlVars, fmtVars, tblVars, canvasVars, lineVars, paraVars, geoVars>>

\* The second run opens the output path with mode "w": what the first run
\* left there is gone
SecondRun ==
    /\ rpc = "once"
    /\ second_run' = generate_pptx(deck, clock)
    /\ rpc' = "twice"
    /\ UNCHANGED <<deck, clock, first_run>>
    /\ UNCHANGED <<pptxVars, hlVars, fmtVars, tblVars, canvasVars, lineVars, paraVars, geoVars>>

NextRerun == Tick \/ FirstRun \/ SecondRun

SpecRerun == InitRerun /\ [][NextRerun]_vars

\* C20: two runs of generate_pptx on the same slide list leave archives
\* with the same entries in the same order, each entry with the same
\* metadata and the same payload, but for the payload of docProps/core.xml.
C20_RunsAreIdentical ==
    rpc = "twice" =>
        /\ Len(first_run) = Len(second_run)
        /\ \A k \in 1..Len(first_run) :
            /\ first_run[k].name = second_run[k].name
            /\ first_run[k].date_time = second_run[k].date_time
            /\ \/ first_run[k].content = second_run[k].content
               \/ first_run[k].name = Part("docProps/core", 0, <<"xml">>)

\* ------------------- _draw_line_single, step by step (lines 1208-1231, 1250-1268)

\* Lines 1209-1213: the locals of _draw_line_single(x1, y1, x2, y2, color) on
\* entry; args keeps the arguments and steps counts the moves made
NewFrame(a) ==
    [args |-> a, x1 |-> a[1], y1 |-> a[2],
     dx |-> Abs(a[3] - a[1]), sx |-> IF a[1] < a[3] THEN 1 ELSE -1,
     dy |-> -Abs(a[4] - a[2]), sy |-> IF a[2] < a[4] THEN 1 ELSE -1,
     err |-> Abs(a[3] - a[1]) - Abs(a[4] - a[2]), steps |-> 0]

\* Line 1216
AtEnd(f) == f.x1 = f.args[3] /\ f.y1 = f.args[4]

LineStepErrKept(f) ==
    LET e2 == 2 * f.err
        stepx == e2 >= f.dy
        stepy == e2 <= f.dx
    IN  [f EXCEPT !.x1 = IF stepx THEN @ + f.sx ELSE @,
                  !.y1 = IF stepy THEN @ + f.sy ELSE @,
                  !.steps = @ + 1]

\* Lines 1218-1224: one pass of the loop after the test of line 1216
LineStep(f) ==
    LET e2 == 2 * f.err
        stepx == e2 >= f.dy
        stepy == e2 <= f.dx
    IN  [f EXCEPT !.err = @ + (IF stepx THEN f.dy ELSE 0) + (IF stepy THEN f.dx ELSE 0),
                  !.x1 = IF stepx THEN @ + f.sx ELSE @,
                  !.y1 = IF stepy THEN @ + f.sy ELSE @,
                  !.steps = @ + 1]

\* Lines 1228-1230: the offsets <<ox, oy>> in the order of the two loops
Offsets(radius) ==
    LET side == (2 * radius) + 1
        all == [k \in 1..(side * side) |->
                    <<((k - 1) \div side) - radius, ((k - 1) % side) - radius>>]
        InDisc(q) == (q[1] * q[1]) + (q[2] * q[2]) <= radius * radius
    IN  SelectSeq(all, InDisc)

\* Lines 1226-1231: the _draw_line_single calls of one draw_line call
LineSingles(x1, y1, x2, y2, thickness) ==
    LET offs == Offsets(Max(0, thickness \div 2))
    IN  [k \in 1..Len(offs) |->
            <<x1 + offs[k][1], y1 + offs[k][2], x2 + offs[k][1], y2 + offs[k][2]>>]

\* Lines 1250-1268: the _draw_line_single calls of one draw_arrow call
ArrowSingles(x1, y1, x2, y2) ==
    LET dx == x2 - x1
        dy == y2 - y1
        n == (dx * dx) + (dy * dy)
        lx == TruncMinusOverRoot(x2, (14 * dx) + (8 * dy), n)
        ly == TruncMinusOverRoot(y2, (14 * dy) - (8 * dx), n)
        rx == TruncMinusOverRoot(x2, (14 * dx) - (8 * dy), n)
        ry == TruncMinusOverRoot(y2, (14 * dy) + (8 * dx), n)
    IN  IF n = 0 THEN LineSingles(x1, y1, x2, y2, 5)
        ELSE LineSingles(x1, y1, x2, y2, 5)
             \o LineSingles(x2, y2, lx, ly, 4)
             \o LineSingles(x2, y2, rx, ry, 4)

LineCanvasSizes == {<<2, 2>>, <<3, 1>>}

\* A draw_line or a draw_arrow call on a blank canvas, about to start
InitLine ==
    /\ \E size \in LineCanvasSizes : canvas = RasterCanvas(size[1], size[2], Background)
    /\ \/ \E x1 \in Coords, y1 \in Coords, x2 \in Coords, y2 \in Coords, t \in Thicknesses :
            /\ call = Call("draw_line", <<x1, y1, x2, y2, t>>)
            /\ todo = LineSingles(x1, y1, x2, y2, t)
       \/ \E x1 \in ArrowCoords, y1 \in ArrowCoords, x2 \in ArrowCoords, y2 \in ArrowCoords :
            /\ call = Call("draw_arrow", <<x1, y1, x2, y2>>)
            /\ todo = ArrowSingles(x1, y1, x2, y2)
    /\ frame = <<>>
    /\ lpc = "between"
    /\ before = <<>>
    /\ png = <<>>
    /\ cpc = "idle"
    /\ PptxIdle
    /\ HighlightIdle
    /\ FormatIdle
    /\ TableIdle
    /\ RerunIdle
    /\ ParagraphsIdle
    /\ GeometryIdle

\* Line 1231: the next _draw_line_single call is entered
EnterSingle ==
    /\ lpc = "between"
    /\ todo # <<>>
    /\ frame' = NewFrame(Head(todo))
    /\ todo' = Tail(todo)
    /\ lpc' = "loop"
    /\ UNCHANGED <<canvas, call, before, png, cpc>>
    /\ UNCHANGED <<pptxVars, hlVars, fmtVars, tblVars, rerunVars, paraVars, geoVars>>

\* Lines 1215-1224: a pass of the loop that does not end it
Iterate ==
    /\ lpc = "loop"
    /\ ~AtEnd(frame)
    /\ canvas' = set_pixel(canvas, frame.x1, frame.y1, Ink)
    /\ frame' = LineStep(frame)
    /\ UNCHANGED <<todo, lpc, call, before, png, cpc>>
    /\ UNCHANGED <<pptxVars, hlVars, fmtVars, tblVars, rerunVars, paraVars, geoVars>>

\* Lines 1215-1217: the pass of the loop that ends it
Break ==
    /\ lpc = "loop"
    /\ AtEnd(frame)
    /\ canvas' = set_pixel(canvas, frame.x1, frame.y1, Ink)
    /\ lpc' = "between"
    /\ UNCHANGED <<todo, frame, call, before, png, cpc>>
    /\ UNCHANGED <<pptxVars, hlVars, fmtVars, tblVars, rerunVars, paraVars, geoVars>>

\* The draw_line or draw_arrow call returns
ReturnLine ==
    /\ lpc = "between"
    /\ todo = <<>>
    /\ lpc' = "returned"
    /\ UNCHANGED <<todo, frame, canvas, call, before, png, cpc>>
    /\ UNCHANGED <<pptxVars, hlVars, fmtVars, tblVars, rerunVars, paraVars, geoVars>>

NextLine == EnterSingle \/ Iterate \/ Break \/ ReturnLine

\* The program is one thread that runs on: a step that can be taken is taken
SpecLine == InitLine /\ [][NextLine]_vars /\ WF_vars(NextLine)

\* The canvas a finished call leaves is the one draw_line and draw_arrow give
LineStepsAgree ==
    lpc = "returned" =>
        canvas.rows =
            (IF call.method = "draw_line"
             THEN draw_line(RasterCanvas(canvas.width, canvas.height, Background),
                            call.args[1], call.args[2], call.args[3], call.args[4],
                            Ink, call.args[5])
             ELSE draw_arrow(RasterCanvas(canvas.width, canvas.height, Background),
                             call.args[1], call.args[2], call.args[3], call.args[4],
                             Ink)).rows

\* The larger of the two distances between the point <<x, y>> and the end
\* point of the frame
Remaining(f, x, y) == Max(Abs(f.args[3] - x), Abs(f.args[4] - y))

InkAt(c, x, y) ==
    \A k \in 1..3 : c.rows[y + 1][(3 * x) + k] = hex_to_rgb(Ink)[k]

\* In the loop every move brings the point one nearer the end point, so the
\* moves made never exceed max(|x2 - x1|, |y2 - y1|); after the loop the
\* point is the end point and both end points inside the canvas are painted
LineProgress ==
    /\ lpc = "loop" =>
        frame.steps + Remaining(frame, frame.x1, frame.y1)
            = Remaining(frame, frame.args[1], frame.args[2])
    /\ (lpc \in {"between", "returned"} /\ DOMAIN frame # {}) =>
        /\ AtEnd(frame)
        /\ frame.steps <= Remaining(frame, frame.args[1], frame.args[2])
        /\ \A e \in {<<frame.args[1], frame.args[2]>>, <<frame.args[3], frame.args[4]>>} :
            InCanvas(canvas, e[1], e[2]) => InkAt(canvas, e[1], e[2])

\* A pass of the loop moves x and y by at most one each
UnitMoves ==
    (lpc = "loop" /\ lpc' = "loop") =>
        /\ Abs(frame'.x1 - frame.x1) <= 1
        /\ Abs(frame'.y1 - frame.y1) <= 1

\* C29: _draw_line_single terminates for every pair of end points: the loop
\* reaches <<x2, y2>> after at most max(|x2 - x1|, |y2 - y1|) passes that
\* move the point, each by at most one in x and in y, and paints both end
\* points that lie inside the canvas; so every draw_line and draw_arrow
\* call returns.
C29_LineLoopTerminates ==
    /\ []LineProgress
    /\ [][UnitMoves]_vars
    /\ <>(lpc = "returned")

\* An arrow drawn: its last line took several moves and ended inside the canvas
C29_Witness ==
    /\ lpc = "returned"
    /\ call.method = "draw_arrow"
    /\ frame.steps >= 2
    /\ InCanvas(canvas, frame.args[1], frame.args[2])

\* ------------------- the paragraphs of slide_xml (lines 138-214, 553-563, 664-698)

MaxBullets == 2

MaxCodeLen == 3

\* Lines 138-160: a paragraph of one run, or of none for the empty text
paragraph_xml(text, font, color, bold) ==
    [font |-> font,
     runs |-> IF text = <<>> THEN <<>> ELSE <<RunData(text, color, bold, FALSE)>>]

HasText(run) == run.text # <<>>

\* Lines 182-214: a paragraph of the runs that have text
paragraph_runs_xml(rs, font) ==
    [font |-> font, runs |-> SelectSeq(rs, HasText)]

\* The line boundaries of str.splitlines that the code texts here can hold
LineBreaks == {"\n", "\r"}

\* code.splitlines() from index i on, start the index where the line under
\* way began: a boundary ends the line ("\r\n" is one boundary), and the
\* text after the last boundary is a line when it is not empty
RECURSIVE SplitLines(_, _, _)
SplitLines(s, i, start) ==
    IF i > Len(s)
    THEN IF start <= Len(s) THEN <<SubSeq(s, start, Len(s))>> ELSE <<>>
    ELSE IF s[i] = "\r" /\ i < Len(s) /\ s[i + 1] = "\n"
         THEN <<SubSeq(s, start, i - 1)>> \o SplitLines(s, i + 2, i + 2)
    ELSE IF s[i] \in LineBreaks
         THEN <<SubSeq(s, start, i - 1)>> \o SplitLines(s, i + 1, i + 1)
    ELSE SplitLines(s, i + 1, start)

\* Lines 553-563
BodyParagraphs(bullets) ==
    [k \in 1..Len(bullets) |->
        paragraph_xml(format_body_line(bullets[k]), "Aptos", "1E293B", FALSE)]

\* Lines 667-687
CodeTitleParagraphs(code_title) ==
    IF code_title # <<>> /\ code_title[1] # <<>>
    THEN <<paragraph_xml(code_title[1], "Aptos", "BFDBFE", TRUE),
           paragraph_xml(<<>>, "Aptos", "BFDBFE", FALSE)>>
    ELSE <<>>

HasRuns(paragraph) == paragraph.runs # <<>>

CodeParagraphsWithRuns(code_title, code) ==
    CodeTitleParagraphs(code_title)
    \o SelectSeq([k \in 1..Len(SplitLines(code, 1, 1)) |->
                    paragraph_runs_xml(highlight_code_line(SplitLines(code, 1, 1)[k]),
                                       "Cascadia Code")],
                 HasRuns)

\* Lines 665-698
CodeParagraphs(code_title, code) ==
    CodeTitleParagraphs(code_title)
    \o [k \in 1..Len(SplitLines(code, 1, 1)) |->
            paragraph_runs_xml(highlight_code_line(SplitLines(code, 1, 1)[k]),
                               "Cascadia Code")]

\* Bullet lines: empty, whitespace only, plain, with a marker, indented
BulletLines == {<<>>, <<" ">>, <<"a">>, <<"-", "a">>, <<" ", "a">>}

CodeAlphabet == {"a", " ", "\n", "\r"}

CodeTitles == {<<>>, <<<<>>>>, <<<<"t">>>>}

InitParagraphs ==
    /\ slide_bullets \in SeqsUpTo(BulletLines, MaxBullets)
    /\ slide_code_title \in CodeTitles
    /\ slide_code \in {<<>>} \cup {<<c>> : c \in SeqsUpTo(CodeAlphabet, MaxCodeLen)}
    /\ body_paragraphs = <<>>
    /\ code_paragraphs = <<>>
    /\ ppc = "input"
    /\ PptxIdle
    /\ HighlightIdle
    /\ FormatIdle
    /\ TableIdle
    /\ CanvasIdle
    /\ RerunIdle
    /\ LineIdle
    /\ GeometryIdle

\* slide_xml, lines 553-563 and 664-698: the paragraphs handed to the Body
\* shape and, when slide.code is not None, to the Code shape
ComposeParagraphs ==
    /\ ppc = "input"
    /\ body_paragraphs' = BodyParagraphs(slide_bullets)
    /\ code_paragraphs' =
        IF slide_code # <<>> THEN CodeParagraphs(slide_code_title, slide_code[1])
        ELSE <<>>
    /\ ppc' = "done"
    /\ UNCHANGED <<slide_bullets, slide_code_title, slide_code>>
    /\ UNCHANGED <<pptxVars, hlVars, fmtVars, tblVars, canvasVars, rerunVars, lineVars, geoVars>>

NextParagraphs == ComposeParagraphs

SpecParagraphs == InitParagraphs /\ [][NextParagraphs]_vars

\* The text of a paragraph: the texts of its runs, one after the other
ParagraphText(paragraph) ==
    Concat([k \in 1..Len(paragraph.runs) |-> paragraph.runs[k].text])

IsBreakAt(s, i) ==
    /\ s[i] \in LineBreaks
    /\ ~(s[i] = "\r" /\ i < Len(s) /\ s[i + 1] = "\n")

\* The lines of a text: one for each line boundary and one for the text
\* after the last boundary, if any
LineCount(s) ==
    Cardinality({i \in 1..Len(s) : IsBreakAt(s, i)})
    + (IF s # <<>> /\ s[Len(s)] \notin LineBreaks THEN 1 ELSE 0)

\* The lines of a text, one after the other with one "\n" after each but
\* the last
JoinLines(ls) ==
    Concat([k \in 1..Len(ls) |-> IF k < Len(ls) THEN ls[k] \o <<"\n">> ELSE ls[k]])

\* s with every "\r\n" and every "\r" replaced by "\n", and without the
\* boundary that ends the last line
RECURSIVE Normalised(_, _)
Normalised(s, i) ==
    IF i > Len(s) THEN <<>>
    ELSE IF i = Len(s) /\ s[i] \in LineBreaks THEN <<>>
    ELSE IF s[i] = "\r" /\ i + 1 = Len(s) /\ s[i + 1] = "\n" THEN <<>>
    ELSE IF s[i] = "\r" /\ i < Len(s) /\ s[i + 1] = "\n" THEN Normalised(s, i + 1)
    ELSE IF s[i] = "\r" THEN <<"\n">> \o Normalised(s, i + 1)
    ELSE <<s[i]>> \o Normalised(s, i + 1)

\* C21: the Body shape has one paragraph per bullet line, in order, the
\* paragraph of an empty or whitespace-only line having no run; the Code
\* shape has two leading paragraphs when there is a code title, then one
\* paragraph per code line, in order, blank lines and lines that give no
\* runs included.
C21_ParagraphsNeverDropped ==
    ppc = "done" =>
        /\ Len(body_paragraphs) = Len(slide_bullets)
        /\ \A k \in 1..Len(slide_bullets) :
            /\ ParagraphText(body_paragraphs[k]) = format_body_line(slide_bullets[k])
            /\ Strip(slide_bullets[k]) = <<>> => body_paragraphs[k].runs = <<>>
        /\ slide_code # <<>> =>
            LET lead == IF slide_code_title \in {<<>>, <<<<>>>>} THEN 0 ELSE 2
                code == slide_code[1]
                shown == [k \in 1..(Len(code_paragraphs) - lead) |->
                            ParagraphText(code_paragraphs[lead + k])]
            IN  /\ Len(code_paragraphs) = lead + LineCount(code)
                /\ lead = 2 =>
                    /\ ParagraphText(code_paragraphs[1]) = slide_code_title[1]
                    /\ code_paragraphs[2].runs = <<>>
                /\ \A k \in 1..Len(shown) : \A i \in 1..Len(shown[k]) :
                        shown[k][i] \notin LineBreaks
                /\ JoinLines(shown) = Normalised(code, 1)

\* A whitespace-only bullet between two others, a code title, and a code
\* text whose second line is blank
C21_Witness ==
    /\ ppc = "done"
    /\ slide_bullets = <<<<"a">>, <<" ">>>>
    /\ slide_code_title = <<<<"t">>>>
    /\ slide_code = <<<<"a", "\n", "\n">>>>
    /\ Len(body_paragraphs) = 2 /\ body_paragraphs[2].runs = <<>>
    /\ Len(code_paragraphs) = 4 /\ code_paragraphs[4].runs = <<>>

\* ------------------------------ the frames of slide_xml's shapes (lines 483-759)

SLIDE_WIDTH == 12192000

SLIDE_HEIGHT == 6858000

MaxCards == 7

\* <a:off x y/> and <a:ext cx cy/> of a shape
Xfrm(x, y, cx, cy) == [x |-> x, y |-> y, cx |-> cx, cy |-> cy]

\* Lines 533-540
body_height(s) ==
    IF s.code # None THEN 2300000
    ELSE IF has_index(s) THEN 1066800
    ELSE IF has_table(s) THEN 1371600
    ELSE 5003800

\* Line 543
body_width(s) == IF image_only_layout(s) THEN 7073900 ELSE 11277600

\* Lines 636-646 for the entry at index i, the code's idx = i - 1
CardXfrm(i) ==
    LET col == (i - 1) % 2
        row == (i - 1) \div 2
        left_x == 457200
        right_x == left_x + 5486400 + 304800
    IN  Xfrm(IF col = 0 THEN left_x ELSE right_x,
             2042160 + (row * (1190000 + 198120)), 5486400, 1190000)

\* The x, y, cx, cy that slide_xml passes for the shape it appends under
\* this name (lines 495-498, 512-515, 568-571, 585-588, 597-600, 621-624,
\* 653-656, 703-706, 721-724, 743-746)
ShapeXfrm(s, shape) ==
    CASE shape.name = "Top Accent" -> Xfrm(0, 0, SLIDE_WIDTH, 137160)
      [] shape.name = "Title" -> Xfrm(457200, 190500, 11277600, 685800)
      [] shape.name = "Body" -> Xfrm(457200, 914400, body_width(s), body_height(s))
      [] shape.name = "Illustration" -> Xfrm(7797800, 1300000, 3850000, 2980000)
      [] shape.name = "Image Caption" -> Xfrm(7797800, 4375000, 3850000, 500000)
      [] shape.name = "Data Table" -> Xfrm(457200, 2194560, 11277600, 3901440)
      [] shape.name = "Index Card" -> CardXfrm(shape.entry)
      [] shape.name = "Code" -> Xfrm(457200, 3379000, 11277600, 2920000)
      [] shape.name = "Footer" -> Xfrm(457200, 6464300, 8600000, 304800)
      [] shape.name = "Slide Number" -> Xfrm(9906000, 6464300, 1437800, 304800)

\* ------------------ what the calls do to the lists they are given (lines 328-366,
\* 617-634, 2887-2897)

\* A statement that binds a name to a list or writes to the list a name is
\* bound to.  bind: name = <the list obj>, the same object under a further
\* name.  new: name = <an expression that builds a list>, a list no other
\* name is bound to.  add_last: name[-1] += value[1], a write to whatever
\* list the name is bound to.
BindName(name, obj) == [op |-> "bind", name |-> name, obj |-> obj, value |-> <<>>]

NewList(name, value) == [op |-> "new", name |-> name, obj |-> <<"new", name>>, value |-> value]

AddLast(name, by) == [op |-> "add_last", name |-> name, obj |-> <<>>, value |-> <<by>>]

\* The lists a slide and the relationship ids hold when the loop body of
\* generate_pptx starts, each under the path that reaches it
HeapOf(s, rids) ==
    LET slide_lists == (<<"slide.index_entries">> :> s.index_entries)
                       @@ (<<"index_link_rids">> :> rids)
    IN  IF has_table(s)
        THEN slide_lists
             @@ (<<"table.headers">> :> s.table.headers)
             @@ (<<"table.col_widths">> :> s.table.col_widths)
             @@ [o \in {<<"table.rows", r>> : r \in 1..Len(s.table.rows)} |->
                    s.table.rows[o[2]]]
        ELSE slide_lists

\* The statements run one after the other from statement i on: the lists
\* they leave, env being the list each name is bound to
RECURSIVE RunStatements(_, _, _, _)
RunStatements(stmts, i, heap, env) ==
    IF i > Len(stmts) THEN heap
    ELSE LET st == stmts[i]
         IN  IF st.op = "bind"
             THEN RunStatements(stmts, i + 1, heap, DictSet(env, st.name, st.obj))
             ELSE IF st.op = "new"
             THEN RunStatements(stmts, i + 1, DictSet(heap, st.obj, st.value),
                                DictSet(env, st.name, st.obj))
             ELSE LET obj == env[st.name]
                      old == heap[obj]
                  IN  RunStatements(stmts, i + 1,
                                    DictSet(heap, obj,
                                            [old EXCEPT ![Len(old)] = @ + st.value[1]]),
                                    env)

RECURSIVE RowStatements(_, _)
RowStatements(t, r) ==
    IF r > Len(t.rows) THEN <<>>
    ELSE <<BindName("raw_row", <<"table.rows", r>>),
           NewList("padded", PaddedRow(t.rows[r], Len(t.headers)))>>
         \o RowStatements(t, r + 1)

TableStatementsAddOutside(cx, t) ==
    LET col_count == Len(t.headers)
        per == cx \div col_count
    IN  (IF t.col_widths # <<>> /\ Len(t.col_widths) = col_count
         THEN <<BindName("columns", <<"table.col_widths">>)>>
         ELSE <<NewList("columns", [k \in 1..col_count |-> per])>>)
        \o <<AddLast("columns", cx - (per * col_count))>>
        \o RowStatements(t, 1)

\* table_xml, lines 333-351: columns is table.col_widths itself (line 334)
\* or a new list that line 338 writes to; each raw_row is a row of the
\* table, and padded a new list (line 351: a slice, and + on lists)
TableStatements(cx, t) ==
    LET col_count == Len(t.headers)
        per == cx \div col_count
    IN  (IF t.col_widths # <<>> /\ Len(t.col_widths) = col_count
         THEN <<BindName("columns", <<"table.col_widths">>)>>
         ELSE <<NewList("columns", [k \in 1..col_count |-> per]),
                AddLast("columns", cx - (per * col_count))>>)
        \o RowStatements(t, 1)

\* slide_xml, lines 617-634: the table_xml call, then card_entries is
\* slide.index_entries itself, rids is index_link_rids itself or a new
\* empty list, and the padded rids are a new list (+ on lists)
SlideStatements(s, rids) ==
    (IF has_table(s) /\ Len(s.table.headers) > 0
     THEN TableStatements(11277600, s.table) ELSE <<>>)
    \o (IF has_index(s)
        THEN <<BindName("card_entries", <<"slide.index_entries">>),
               IF rids # <<>> THEN BindName("rids", <<"index_link_rids">>)
               ELSE NewList("rids", <<>>)>>
             \o (IF Len(rids) < Len(s.index_entries)
                 THEN <<NewList("rids", PadRids(rids, s.index_entries))>>
                 ELSE <<>>)
        ELSE <<>>)

\* The slide as it is after slide_xml(s, ..., index_link_rids = rids)
SlideAfter(s, rids) ==
    LET heap == RunStatements(SlideStatements(s, rids), 1, HeapOf(s, rids), <<>>)
    IN  [s EXCEPT
         !.index_entries = heap[<<"slide.index_entries">>],
         !.table = IF has_table(s)
                   THEN [@ EXCEPT
                         !.headers = heap[<<"table.headers">>],
                         !.col_widths = heap[<<"table.col_widths">>],
                         !.rows = [r \in 1..Len(s.table.rows) |->
                                      heap[<<"table.rows", r>>]]]
                   ELSE @]

\* Seven header columns, which do not divide the frame's 11277600, with
\* seven widths, a row of one cell and a row of eight
WideTable ==
    TableData(Headers(7), <<<<"cell">>, [k \in 1..8 |-> "cell"]>>,
              [k \in 1..7 |-> 1600000])

\* Index entries that target the slide itself, "A", or no slide, "C"
CardEntries == {IndexEntry("A"), IndexEntry("C")}

\* Slides titled "A" with up to MaxCards index entries; a table, when there
\* is one, has one header column or seven
WideSlides ==
    {SlideData("A", ik, "caption", code, "footer", table, entries) :
        ik \in {None, "cover_overview"}, code \in {None, "code"},
        table \in {NoTable, TableData(Headers(1), <<>>, <<>>), WideTable},
        entries \in SeqsUpTo(CardEntries, MaxCards)}

InitGeometry ==
    /\ geo_slide \in WideSlides
    /\ geo_shapes = <<>>
    /\ gpc = "input"
    /\ PptxIdle
    /\ HighlightIdle
    /\ FormatIdle
    /\ TableIdle
    /\ CanvasIdle
    /\ RerunIdle
    /\ LineIdle
    /\ ParagraphsIdle

\* generate_pptx's loop body (lines 2888-2897) for a deck of this one slide:
\* slide_xml is given the relationship ids slide_rels_xml allocated
ComposeGeometry ==
    /\ gpc = "input"
    /\ LET targets == LinkTargets(geo_slide.index_entries,
                                  title_to_index(<<geo_slide.title>>))
           rels == slide_rels_xml(ImageNameOf(geo_slide), targets)
           xml == slide_xml(geo_slide, rels.link_rids)
       IN  /\ geo_shapes' =
                [j \in 1..Len(xml.shapes) |->
                    [name |-> xml.shapes[j].name, entry |-> xml.shapes[j].entry,
                     xfrm |-> ShapeXfrm(geo_slide, xml.shapes[j])]]
           /\ geo_slide' = SlideAfter(geo_slide, rels.link_rids)
    /\ gpc' = "done"
    /\ UNCHANGED <<pptxVars, hlVars, fmtVars, tblVars, canvasVars, rerunVars,
                   lineVars, paraVars>>

NextGeometry == ComposeGeometry

SpecGeometry == InitGeometry /\ [][NextGeometry]_vars

InsideSlide(f) ==
    /\ f.x >= 0 /\ f.y >= 0
    /\ f.x + f.cx <= SLIDE_WIDTH
    /\ f.y + f.cy <= SLIDE_HEIGHT

\* C27: every shape of a slide lies inside the slide, 12192000 wide and
\* 6858000 high, however many index entries the slide has, and no index
\* card reaches into the footer and page number row that starts at
\* y = 6464300.
C27_ShapesInsideSlide ==
    gpc = "done" =>
        \A j \in 1..Len(geo_shapes) :
            /\ InsideSlide(geo_shapes[j].xfrm)
            /\ geo_shapes[j].name = "Index Card" =>
                geo_shapes[j].xfrm.y + geo_shapes[j].xfrm.cy <= 6464300

\* The shapes of slides with at most six index entries lie inside the slide
InsideUpToSixCards ==
    (gpc = "done" /\ Len(geo_slide.index_entries) <= 6) =>
        \A j \in 1..Len(geo_shapes) :
            /\ InsideSlide(geo_shapes[j].xfrm)
            /\ geo_shapes[j].name = "Index Card" =>
                geo_shapes[j].xfrm.y + geo_shapes[j].xfrm.cy <= 6464300

====
